---- MODULE Spec2Model ----
(***************************************************************************)
(* A model of the NetExec terminal dashboard (nxc/dashboard): the command  *)
(* builder state machine, the view controller that drives it, the generic  *)
(* paginator, the responsive column selection and the host / credential    *)
(* aggregation of the database layer.                                      *)
(*                                                                         *)
(* Conventions.  A Python str is a TLA+ string; a str that the code        *)
(* iterates letter by letter (a host's protocol codes) is a sequence of    *)
(* one-letter strings.  An optional dict (None or a dict) is the empty     *)
(* sequence or a one-element sequence.  An optional str is the string      *)
(* NoneStr or the str itself.                                              *)
(***************************************************************************)
EXTENDS Integers, Sequences, FiniteSets, TLC

VARIABLES
    \* ---- CommandBuilder (components/command_builder.py)
    command_builder,      \* the fields of the CommandBuilder instance
    build_result,         \* what the last build_command() call returned
    raised,               \* the exception the last direct call raised
    \* ---- DashboardApp (app.py)
    pc,                   \* position of the main loop / of handle_input
    app,                  \* the fields of the DashboardApp instance
    terminal_height,      \* console.size.height
    hosts_page,           \* the fields of the HostsPage instance
    creds_page,           \* the fields of the CredsPage instance
    last_input,           \* the key get_key() returned last and the branch
                          \* of handle_input that took it
    screen,               \* what the last draw attempt left on the terminal
    connections,          \* db.sessions and db.engines that are still open
    \* ---- Paginator (components/paginator.py)
    paginator,            \* the fields of the Paginator instance
    data_total,           \* number of items the data source holds
    page_result,          \* the last PaginationResult returned
    \* ---- ResponsiveTable (components/responsive.py)
    columns,              \* ResponsiveTable.columns
    terminal_width,       \* console.size.width
    visible,              \* the last get_visible_columns() result
    \* ---- DashboardDB (db.py)
    stores,               \* per protocol: the rows of its tables
    hosts_result,         \* the last get_hosts() result
    creds_result,         \* the last get_credentials() result
    query_result,         \* the last _execute_query() outcome
    _last_counts,         \* DashboardDB._last_counts
    diff_result,          \* the last get_diff_counts() result
    analytics_result      \* the last get_analytics() result

cbVars   == <<command_builder, build_result, raised>>
appVars  == <<pc, app, terminal_height, hosts_page, creds_page, last_input,
              screen, connections>>
pgVars   == <<paginator, data_total, page_result>>
rtVars   == <<columns, terminal_width, visible>>
dbVars   == <<stores, hosts_result, creds_result>>
regVars  == <<query_result, _last_counts, diff_result, analytics_result>>
vars     == <<cbVars, appVars, pgVars, rtVars, dbVars, regVars>>

(***************************************************************************)
(* Python values                                                           *)
(***************************************************************************)
None == <<>>
Some(v) == <<v>>
NoneStr == "None"

\* Python truthiness of an optional dict and of an optional str
IsTruthy(opt) == opt # None
StrTruthy(s) == s # NoneStr /\ s # ""

LowerLetters ==
    <<"a","b","c","d","e","f","g","h","i","j","k","l","m",
      "n","o","p","q","r","s","t","u","v","w","x","y","z">>
UpperLetters ==
    <<"A","B","C","D","E","F","G","H","I","J","K","L","M",
      "N","O","P","Q","R","S","T","U","V","W","X","Y","Z">>

\* str.upper() of a one-letter string
UpperLetter(c) ==
    IF \E i \in DOMAIN LowerLetters : LowerLetters[i] = c
    THEN UpperLetters[CHOOSE i \in DOMAIN LowerLetters : LowerLetters[i] = c]
    ELSE c

\* sep.join(parts)
RECURSIVE Join(_, _)
Join(parts, sep) ==
    IF parts = <<>> THEN ""
    ELSE IF Len(parts) = 1 THEN parts[1]
    ELSE parts[1] \o sep \o Join(Tail(parts), sep)

(***************************************************************************)
(* CommandBuilder                                                          *)
(***************************************************************************)
\* CommandBuilder.PROTOCOLS, in declaration order, with needs_cred
PROTOCOLS ==
    << [name |-> "smb",   needs_cred |-> TRUE],
       [name |-> "ldap",  needs_cred |-> TRUE],
       [name |-> "winrm", needs_cred |-> TRUE],
       [name |-> "ssh",   needs_cred |-> TRUE],
       [name |-> "mssql", needs_cred |-> TRUE],
       [name |-> "rdp",   needs_cred |-> TRUE],
       [name |-> "ftp",   needs_cred |-> TRUE],
       [name |-> "wmi",   needs_cred |-> TRUE],
       [name |-> "vnc",   needs_cred |-> FALSE],
       [name |-> "nfs",   needs_cred |-> FALSE] >>

\* list(self.PROTOCOLS.keys())
available_protocols == [i \in DOMAIN PROTOCOLS |-> PROTOCOLS[i].name]

\* the letter -> protocol map of get_available_protocols
proto_map_w_is_wmi ==
    [S |-> "smb", L |-> "ldap", W |-> "wmi", M |-> "mssql",
     R |-> "rdp", F |-> "ftp", V |-> "vnc", N |-> "nfs"]

proto_map ==
    [S |-> "smb", L |-> "ldap", W |-> "winrm", M |-> "mssql",
     R |-> "rdp", F |-> "ftp", V |-> "vnc", N |-> "nfs"]

reset ==
    [state             |-> "idle",
     selected_host     |-> None,
     selected_user     |-> None,
     selected_protocol |-> NoneStr,
     protocol_index    |-> 0,
     start_from        |-> NoneStr]

start_selection(start) ==
    [reset EXCEPT !.start_from = start,
                  !.state = IF start = "hosts" THEN "select_host"
                            ELSE "select_user"]

set_host(cb, host_data) ==
    [cb EXCEPT !.selected_host = Some(host_data),
               !.state = IF cb.start_from = "hosts" THEN "select_user"
                         ELSE "select_protocol"]

set_user_ignoring_origin(cb, user_data) ==
    [cb EXCEPT !.selected_user = Some(user_data),
               !.state = "select_protocol"]

set_user(cb, user_data) ==
    [cb EXCEPT !.selected_user = Some(user_data),
               !.state = IF cb.start_from = "users" THEN "select_host"
                         ELSE "select_protocol"]

\* the decoded letters of a protocol-code string, in the string's order
RECURSIVE DecodeLetters(_)
DecodeLetters(host_protos) ==
    IF host_protos = <<>> THEN <<>>
    ELSE LET letter == UpperLetter(Head(host_protos)) IN
         (IF letter \in DOMAIN proto_map THEN <<proto_map[letter]>> ELSE <<>>)
         \o DecodeLetters(Tail(host_protos))

get_available_protocols(cb) ==
    IF ~IsTruthy(cb.selected_host) THEN available_protocols
    ELSE LET available == DecodeLetters(cb.selected_host[1].protocols) IN
         IF available # <<>> THEN available ELSE available_protocols

select_protocol(cb, protocol) ==
    [cb EXCEPT !.selected_protocol = protocol, !.state = "done"]

\* available[self.protocol_index] raises IndexError past the end of the list
ProtocolKeyRaises(cb, key) ==
    /\ key = "\r"
    /\ cb.protocol_index >= Len(get_available_protocols(cb))

\* handle_protocol_key with the index stopped at the ends of the list
\* instead of taken modulo its length
handle_protocol_key_no_wrap(cb, key) ==
    LET available == get_available_protocols(cb) IN
    IF available = <<>> THEN cb
    ELSE IF key \in {"up", "w"}
         THEN [cb EXCEPT !.protocol_index =
                            IF cb.protocol_index > 0
                            THEN cb.protocol_index - 1 ELSE 0]
    ELSE IF key \in {"down", "s"}
         THEN [cb EXCEPT !.protocol_index =
                            IF cb.protocol_index < Len(available) - 1
                            THEN cb.protocol_index + 1
                            ELSE Len(available) - 1]
    ELSE IF key = "\r"
         THEN select_protocol(cb, available[cb.protocol_index + 1])
    ELSE cb

\* the CommandBuilder after handle_protocol_key(key) returned
handle_protocol_key(cb, key) ==
    LET available == get_available_protocols(cb) IN
    IF available = <<>> THEN cb
    ELSE IF key \in {"up", "w"}
         THEN [cb EXCEPT !.protocol_index =
                            (cb.protocol_index - 1) % Len(available)]
    ELSE IF key \in {"down", "s"}
         THEN [cb EXCEPT !.protocol_index =
                            (cb.protocol_index + 1) % Len(available)]
    ELSE IF key = "\r"
         THEN select_protocol(cb, available[cb.protocol_index + 1])
    ELSE cb

\* the value handle_protocol_key(key) returns: True iff a selection was made
protocol_key_selects(cb, key) ==
    /\ get_available_protocols(cb) # <<>>
    /\ key = "\r"

\* the "-u" part of build_command
user_parts(user) ==
    IF StrTruthy(user.domain) /\ StrTruthy(user.username)
    THEN <<"-u", user.domain \o "\\" \o user.username>>
    ELSE IF StrTruthy(user.username) THEN <<"-u", user.username>>
    ELSE <<>>

\* the "-H" / "-p" part of build_command
secret_parts_quoteless(user) ==
    IF StrTruthy(user.password)
    THEN IF user.credtype = "hash" THEN <<"-H", user.password>>
         ELSE <<"-p", user.password>>
    ELSE <<>>

secret_parts(user) ==
    IF StrTruthy(user.password)
    THEN IF user.credtype = "hash" THEN <<"-H", user.password>>
         ELSE <<"-p", "\"" \o user.password \o "\"">>
    ELSE <<>>

build_command(cb) ==
    IF ~(IsTruthy(cb.selected_host) /\ StrTruthy(cb.selected_protocol))
    THEN ""
    ELSE
    LET target == cb.selected_host[1].ip
        parts0 == <<"nxc", cb.selected_protocol>>
        parts1 == IF StrTruthy(target) THEN Append(parts0, target) ELSE parts0
        parts2 == IF IsTruthy(cb.selected_user)
                  THEN parts1 \o user_parts(cb.selected_user[1])
                              \o secret_parts(cb.selected_user[1])
                  ELSE parts1
    IN Join(parts2, " ")

is_active(cb) == cb.state # "idle" /\ cb.state # "done"
needs_protocol_selection(cb) == cb.state = "select_protocol"

(***************************************************************************)
(* Merged hosts and deduplicated credentials, as DashboardDB returns them  *)
(* and as the pages hand them to the CommandBuilder                        *)
(***************************************************************************)
Host(id, ip, hostname, protocols) ==
    [id |-> id, ip |-> ip, hostname |-> hostname, domain |-> "CORP",
     os |-> "", protocols |-> protocols, dc |-> FALSE, signing |-> NoneStr]

Cred(id, domain, username, password, credtype) ==
    [id |-> id, domain |-> domain, username |-> username,
     password |-> password, credtype |-> credtype, pillaged_from |-> 0,
     reuse_count |-> 1, protocols |-> "SMB", source |-> "used"]

\* the hosts offered to set_host: merged records and, for the documented
\* default of host.get("protocols", ""), one without protocol codes
HostInputs ==
    { Host(1, "10.0.0.5", "DC01", <<"L", "S">>),
      Host(2, "10.0.0.6", "", <<"X", "V">>),
      Host(3, "10.0.0.7", "WS01", <<"S", "W">>),
      Host(4, "10.0.0.8", "", <<>>) }

UserInputs ==
    { Cred(1, "CORP", "alice", "hunter2", "plaintext"),
      Cred(2, "", "root", "31d6cfe0d16ae931", "hash"),
      Cred(3, "CORP", "bob", "", "plaintext"),
      Cred(4, "", "svc", "tgt.ccache", "ticket") }

ProtocolKeys == {"up", "down", "w", "s", "\r", "x"}

(***************************************************************************)
(* The CommandBuilder driven call by call (its public methods in any       *)
(* order)                                                                  *)
(***************************************************************************)
CBInit ==
    /\ command_builder = reset
    /\ build_result = NoneStr
    /\ raised = "none"

CB_Returned(cb) ==
    /\ command_builder' = cb
    /\ build_result' = NoneStr
    /\ raised' = "none"
    /\ UNCHANGED <<appVars, pgVars, rtVars, dbVars, regVars>>

CB_Reset == CB_Returned(reset)

CB_StartSelection == \E start \in {"hosts", "users"} :
    CB_Returned(start_selection(start))

CB_SetHost == \E h \in HostInputs :
    CB_Returned(set_host(command_builder, h))

CB_SetUser == \E u \in UserInputs :
    CB_Returned(set_user(command_builder, u))

CB_HandleProtocolKey == \E key \in ProtocolKeys :
    IF ProtocolKeyRaises(command_builder, key)
    THEN /\ raised' = "IndexError"
         /\ build_result' = NoneStr
         /\ UNCHANGED <<command_builder, appVars, pgVars, rtVars, dbVars, regVars>>
    ELSE CB_Returned(handle_protocol_key(command_builder, key))

CB_BuildCommand ==
    /\ build_result' = build_command(command_builder)
    /\ raised' = "none"
    /\ UNCHANGED <<command_builder, appVars, pgVars, rtVars, dbVars, regVars>>

CBNext ==
    \/ CB_Reset
    \/ CB_StartSelection
    \/ CB_SetHost
    \/ CB_SetUser
    \/ CB_HandleProtocolKey
    \/ CB_BuildCommand

(***************************************************************************)
(* DashboardDB: the per-protocol stores and the aggregation queries        *)
(***************************************************************************)
\* DashboardDB.PROTOCOLS in declaration order, each name spelled out so
\* that protocol.upper()[0] can be taken
DB_PROTOCOLS ==
    << [name |-> "smb",   letters |-> <<"s","m","b">>],
       [name |-> "ldap",  letters |-> <<"l","d","a","p">>],
       [name |-> "ssh",   letters |-> <<"s","s","h">>],
       [name |-> "wmi",   letters |-> <<"w","m","i">>],
       [name |-> "ftp",   letters |-> <<"f","t","p">>],
       [name |-> "rdp",   letters |-> <<"r","d","p">>],
       [name |-> "nfs",   letters |-> <<"n","f","s">>],
       [name |-> "vnc",   letters |-> <<"v","n","c">>],
       [name |-> "mssql", letters |-> <<"m","s","s","q","l">>],
       [name |-> "winrm", letters |-> <<"w","i","n","r","m">>] >>

ProtocolNames == {DB_PROTOCOLS[i].name : i \in DOMAIN DB_PROTOCOLS}

\* protocol.upper(), for the names of DB_PROTOCOLS
UpperName(protocol) ==
    CASE protocol = "smb" -> "SMB"     [] protocol = "ldap" -> "LDAP"
      [] protocol = "ssh" -> "SSH"     [] protocol = "wmi" -> "WMI"
      [] protocol = "ftp" -> "FTP"     [] protocol = "rdp" -> "RDP"
      [] protocol = "nfs" -> "NFS"     [] protocol = "vnc" -> "VNC"
      [] protocol = "mssql" -> "MSSQL" [] protocol = "winrm" -> "WINRM"

\* host["_protocol"][0]: the first letter of protocol.upper()
FirstLetter(protocol) ==
    LET p == CHOOSE i \in DOMAIN DB_PROTOCOLS : DB_PROTOCOLS[i].name = protocol
    IN UpperLetter(DB_PROTOCOLS[p].letters[1])

\* str.lower(), for the mixed-case strings that occur in credential rows;
\* every other string of the model is already lower case or has no letters
LowerTable ==
    [CORP |-> "corp", Corp |-> "corp", Alice |-> "alice", ALICE |-> "alice",
     Plaintext |-> "plaintext", HASH |-> "hash", Hash |-> "hash"]

Lower(str) == IF str \in DOMAIN LowerTable THEN LowerTable[str] ELSE str

\* str.strip(), for the strings of the model: only the all-blank ones change
Strip(str) == IF str \in {" ", "  "} THEN "" ELSE str

\* a store that was never opened (no file, or the connection failed)
NoStore ==
    [live |-> FALSE, locked |-> FALSE, tables |-> {}, hosts |-> <<>>,
     users |-> <<>>, shares |-> <<>>, admin_relations |-> <<>>,
     groups |-> <<>>, dpapi_secrets |-> <<>>, conf_checks_results |-> <<>>]

\* self.engines: the protocols with a live connection, in PROTOCOLS order
engines(st) ==
    LET names == [i \in DOMAIN DB_PROTOCOLS |-> DB_PROTOCOLS[i].name]
        IsLive(n) == st[n].live
    IN SelectSeq(names, IsLive)

NoConnections == [sessions |-> {}, engines |-> {}]

\* _connect_all: a session and an engine for every store that could be opened
_connect_all(st) ==
    LET live == {engines(st)[i] : i \in DOMAIN engines(st)}
    IN [sessions |-> live, engines |-> live]

\* the ways close() can go: no call raises (None), or session.close() or
\* engine.dispose() of one protocol raises
CloseFailures(conn) ==
    {None} \cup {Some([kind |-> "session", protocol |-> p]) : p \in conn.sessions}
           \cup {Some([kind |-> "engine", protocol |-> p]) : p \in conn.engines}

\* close(): the two loops over self.sessions and self.engines, in the order
\* the stores were opened; the first call that raises ends it
close(conn, names, failing) ==
    IF failing = None
    THEN [connections |-> NoConnections, raised |-> "none"]
    ELSE LET k == CHOOSE i \in DOMAIN names : names[i] = failing[1].protocol
             before == {names[i] : i \in 1..(k - 1)}
         IN IF failing[1].kind = "session"
            THEN [connections |-> [conn EXCEPT !.sessions = @ \ before],
                  raised |-> "Exception"]
            ELSE [connections |-> [sessions |-> {},
                                   engines |-> conn.engines \ before],
                  raised |-> "Exception"]

PanelOpen == app.show_command_result /\ StrTruthy(app.generated_command)

_table_exists(st, protocol, table_name) ==
    st[protocol].live /\ table_name \in st[protocol].tables

\* a statement handed to _execute_query: the table it reads, the column it
\* names ("*" for all, "nosuch" for one the table lacks) and whether its
\* text is malformed
Select(table_name) ==
    [table |-> table_name, column |-> "*", malformed |-> FALSE]

\* what makes conn.execute raise inside the try block
ExecuteRaises(st, protocol, query) ==
    \/ st[protocol].locked
    \/ query.malformed
    \/ query.table \notin st[protocol].tables
    \/ query.column = "nosuch"

\* _execute_query letting the exception of conn.execute escape
QueryOutcomePropagating(st, protocol, query) ==
    IF protocol \notin ProtocolNames \/ ~st[protocol].live
    THEN [rows |-> <<>>, raised |-> "none"]
    ELSE IF ExecuteRaises(st, protocol, query)
    THEN [rows |-> <<>>, raised |-> "OperationalError"]
    ELSE LET rows == st[protocol][query.table]
         IN [rows |-> [i \in DOMAIN rows |-> [row |-> rows[i], id |-> i]],
             raised |-> "none"]

\* _execute_query: the rows returned and the exception that leaves the call
QueryOutcome(st, protocol, query) ==
    IF protocol \notin ProtocolNames \/ ~st[protocol].live
    THEN [rows |-> <<>>, raised |-> "none"]
    ELSE IF ExecuteRaises(st, protocol, query)
    THEN [rows |-> <<>>, raised |-> "none"]
    ELSE LET rows == st[protocol][query.table]
         IN [rows |-> [i \in DOMAIN rows |-> [row |-> rows[i], id |-> i]],
             raised |-> "none"]

\* _execute_query(protocol, "SELECT * FROM <table>"): the rows, each with
\* its id column (the row's position in the table)
_execute_query(st, protocol, table_name) ==
    QueryOutcome(st, protocol, Select(table_name)).rows

\* the rows of one table of every live store that has it, in engine order,
\* each tagged with _protocol = protocol.upper()
RECURSIVE CollectRows(_, _, _)
CollectRows(st, protos, table_name) ==
    IF protos = <<>> THEN <<>>
    ELSE LET protocol == Head(protos)
             rows == IF _table_exists(st, protocol, table_name)
                     THEN _execute_query(st, protocol, table_name)
                     ELSE <<>>
         IN [i \in DOMAIN rows |->
                [row |-> rows[i].row, id |-> rows[i].id,
                 protocol |-> protocol]]
            \o CollectRows(st, Tail(protos), table_name)

\* SELECT COUNT(*) FROM <table>, 0 when the table is missing or the query
\* returned nothing
CountRows(st, protocol, table_name) ==
    IF _table_exists(st, protocol, table_name)
    THEN Len(_execute_query(st, protocol, table_name))
    ELSE 0

\* SELECT COUNT(DISTINCT <column>) FROM <table>
CountDistinct(st, protocol, table_name, column) ==
    IF _table_exists(st, protocol, table_name)
    THEN LET rows == _execute_query(st, protocol, table_name)
         IN Cardinality({rows[i].row[column] : i \in DOMAIN rows})
    ELSE 0

\* the sum of COUNT(*) over the given protocols
RECURSIVE SumCounts(_, _, _)
SumCounts(st, protos, table_name) ==
    IF protos = <<>> THEN 0
    ELSE CountRows(st, Head(protos), table_name)
         + SumCounts(st, Tail(protos), table_name)

get_counts(st) ==
    [hosts       |-> SumCounts(st, engines(st), "hosts"),
     pwned_hosts |-> CountDistinct(st, "smb", "admin_relations", "hostid"),
     creds       |-> SumCounts(st, engines(st), "users"),
     shares      |-> CountRows(st, "smb", "shares"),
     groups      |-> SumCounts(st, <<"smb", "ldap">>, "groups"),
     dpapi       |-> CountRows(st, "smb", "dpapi_secrets"),
     wcc         |-> CountRows(st, "smb", "conf_checks_results"),
     users_admin |-> CountDistinct(st, "smb", "admin_relations", "userid")]

\* get_diff_counts leaving self._last_counts as it was
get_diff_counts_keep_baseline(st, last_counts) ==
    LET current == get_counts(st)
        Last(key) == IF last_counts = None THEN current[key]
                     ELSE last_counts[1][key]
    IN [diff |-> [key \in DOMAIN current |-> current[key] - Last(key)],
        last_counts |-> IF last_counts = None THEN Some(current)
                        ELSE last_counts]

\* get_diff_counts: the returned diff and the new self._last_counts; the
\* empty dict the constructor sets is None, and last.get(key, current[key])
\* then yields current[key]
get_diff_counts(st, last_counts) ==
    LET current == get_counts(st)
        Last(key) == IF last_counts = None THEN current[key]
                     ELSE last_counts[1][key]
    IN [diff |-> [key \in DOMAIN current |-> current[key] - Last(key)],
        last_counts |-> Some(current)]

\* "".join(sorted(letters))
SortedLetters(letters) ==
    LET In(c) == c \in letters IN SelectSeq(UpperLetters, In)

\* position of the record with this ip in the merged list, 0 if none
MergedIndex(merged, ip) ==
    IF \E i \in DOMAIN merged : merged[i].ip = ip
    THEN CHOOSE i \in DOMAIN merged : merged[i].ip = ip
    ELSE 0

\* one iteration of the merge loop of get_hosts; the variant keeps what the
\* first row of an IP gave and ignores the later rows
MergeHostFirstRowOnly(merged, tagged) ==
    LET host == tagged.row
        ip == host.ip
        at == MergedIndex(merged, ip)
    IN IF ~StrTruthy(ip) \/ ~StrTruthy(Strip(ip)) THEN merged
       ELSE IF at = 0
            THEN Append(merged,
                    [id |-> tagged.id, ip |-> ip, hostname |-> host.hostname,
                     domain |-> host.domain, os |-> host.os,
                     protocols |-> {FirstLetter(tagged.protocol)},
                     dc |-> host.dc, signing |-> host.signing])
            ELSE merged

MergeHost(merged, tagged) ==
    LET host == tagged.row
        ip == host.ip
        at == MergedIndex(merged, ip)
        new == IF at # 0 THEN merged
               ELSE Append(merged,
                    [id |-> tagged.id, ip |-> ip, hostname |-> host.hostname,
                     domain |-> host.domain, os |-> host.os,
                     protocols |-> {},
                     dc |-> host.dc, signing |-> host.signing])
        k == MergedIndex(new, ip)
        old == new[k]
    IN IF ~StrTruthy(ip) \/ ~StrTruthy(Strip(ip)) THEN merged
       ELSE [new EXCEPT ![k] =
                [old EXCEPT
                    !.protocols = old.protocols \cup {FirstLetter(tagged.protocol)},
                    !.hostname = IF StrTruthy(host.hostname)
                                    /\ ~StrTruthy(old.hostname)
                                 THEN host.hostname ELSE old.hostname,
                    !.os = IF StrTruthy(host.os) /\ ~StrTruthy(old.os)
                           THEN host.os ELSE old.os]]

RECURSIVE MergeHosts(_, _)
MergeHosts(merged, all_hosts) ==
    IF all_hosts = <<>> THEN merged
    ELSE MergeHosts(MergeHost(merged, Head(all_hosts)), Tail(all_hosts))

\* host_list before the filters: list(merged.values()) with the protocol
\* set joined into its sorted string
MergedHostList(st) ==
    LET merged == MergeHosts(<<>>, CollectRows(st, engines(st), "hosts"))
    IN [i \in DOMAIN merged |->
           [merged[i] EXCEPT !.protocols = SortedLetters(merged[i].protocols)]]

\* list[start:end] for 0 <= start
Slice(list, start, end) ==
    LET lo == IF start < Len(list) THEN start ELSE Len(list)
        hi == IF end < Len(list) THEN end ELSE Len(list)
    IN IF hi <= lo THEN <<>> ELSE SubSeq(list, lo + 1, hi)

\* the IPs of the smb hosts that a relation table (shares or
\* admin_relations) names by hostid
IpsNamedBy(st, table_name) ==
    LET rel == _execute_query(st, "smb", table_name)
        host_ids == _execute_query(st, "smb", "hosts")
    IN {host_ids[h].row.ip : h \in
            {h \in DOMAIN host_ids :
                \E r \in DOMAIN rel : rel[r].row.hostid = host_ids[h].id}}

\* get_hosts(page, size, filters): (host_list[start:end], total)
get_hosts(st, page, size, filters) ==
    LET host_list == MergedHostList(st)
        smb_live == st["smb"].live
        hosts_with_shares == IpsNamedBy(st, "shares")
        WithShares(h) == h.ip \in hosts_with_shares
        list1 == IF filters.has_shares /\ smb_live
                 THEN SelectSeq(host_list, WithShares) ELSE host_list
        hosts_with_creds ==
            IF _table_exists(st, "smb", "admin_relations")
            THEN IpsNamedBy(st, "admin_relations") ELSE {}
        WithCreds(h) == h.ip \in hosts_with_creds
        list2 == IF filters.has_creds /\ smb_live
                 THEN SelectSeq(list1, WithCreds) ELSE list1
        start == (page - 1) * size
    IN [items |-> Slice(list2, start, start + size), total |-> Len(list2)]

NoHostFilters == [has_shares |-> FALSE, has_creds |-> FALSE]

(***************************************************************************)
(* get_credentials                                                         *)
(***************************************************************************)
DedupKeyCaseSensitive(cred) ==
    <<Lower(cred.domain), cred.username, Lower(cred.credtype)>>

DedupKey(cred) ==
    <<Lower(cred.domain), Lower(cred.username), Lower(cred.credtype)>>

\* position of the record with this key in the deduplicated list, 0 if none
DedupIndex(deduped, key) ==
    IF \E i \in DOMAIN deduped : deduped[i].key = key
    THEN CHOOSE i \in DOMAIN deduped : deduped[i].key = key
    ELSE 0

\* one iteration of the deduplication loop of get_credentials
DedupCred(deduped, tagged) ==
    LET cred == tagged.row
        key == DedupKey(cred)
        at == DedupIndex(deduped, key)
    IN IF at = 0
       THEN Append(deduped,
               [key |-> key, id |-> tagged.id, domain |-> cred.domain,
                username |-> cred.username, password |-> cred.password,
                credtype |-> cred.credtype,
                pillaged_from |-> cred.pillaged_from_hostid,
                reuse_count |-> 1,
                protocols |-> {UpperName(tagged.protocol)}])
       ELSE [deduped EXCEPT
                ![at].reuse_count = @ + 1,
                ![at].protocols = @ \cup {UpperName(tagged.protocol)}]

RECURSIVE DedupCreds(_, _)
DedupCreds(deduped, all_creds) ==
    IF all_creds = <<>> THEN deduped
    ELSE DedupCreds(DedupCred(deduped, Head(all_creds)), Tail(all_creds))

\* the upper-case protocol names in sorted() order
SortedUpperNames ==
    <<"FTP", "LDAP", "MSSQL", "NFS", "RDP", "SMB", "SSH", "VNC", "WINRM", "WMI">>

\* ", ".join(sorted(names))
JoinSortedNames(names) ==
    LET In(n) == n \in names IN Join(SelectSeq(SortedUpperNames, In), ", ")

\* cred_list before the filter: the records of list(deduped.values()); a
\* pillaged_from_hostid of 0 stands for NULL (both are false to Python)
DedupedCredList(st) ==
    LET deduped == DedupCreds(<<>>, CollectRows(st, engines(st), "users"))
    IN [i \in DOMAIN deduped |->
           [id |-> deduped[i].id, domain |-> deduped[i].domain,
            username |-> deduped[i].username,
            password |-> deduped[i].password,
            credtype |-> deduped[i].credtype,
            pillaged_from |-> deduped[i].pillaged_from,
            reuse_count |-> deduped[i].reuse_count,
            protocols |-> JoinSortedNames(deduped[i].protocols),
            source |-> IF deduped[i].pillaged_from # 0
                       THEN "dumped" ELSE "used"]]

\* get_credentials(page, size, filters): (cred_list[start:end], total);
\* filters is "none", "plaintext" or "hash"
get_credentials(st, page, size, filters) ==
    LET cred_list == DedupedCredList(st)
        IsPlain(c) == c.credtype = "plaintext"
        IsHash(c) == c.credtype = "hash"
        list1 == IF filters = "plaintext" THEN SelectSeq(cred_list, IsPlain)
                 ELSE IF filters = "hash" THEN SelectSeq(cred_list, IsHash)
                 ELSE cred_list
        start == (page - 1) * size
    IN [items |-> Slice(list1, start, start + size), total |-> Len(list1)]

\* a Python float (n / d) * 100, kept as its value in hundredths (30.0 is
\* 3000), truncated
Hundredths(n, d) == (10000 * n) \div d

\* get_analytics, lines 771 and 782: the length from which a secret is taken
\* for a hash, and the length of the candidate list
MaxSecretLen == 50

SprayLimit == 5

\* (cred.get("credtype") or "plaintext").lower() tested for "hash", "ticket"
\* and "ccache"
CredTypeClass(credtype) ==
    LET ctype == IF StrTruthy(credtype) THEN Lower(credtype) ELSE "plaintext"
    IN IF ctype = "hash" THEN "hash"
       ELSE IF ctype \in {"ticket", "ccache"} THEN "ticket"
       ELSE "plaintext"

\* password_usage: (pwd, count) for every secret that is non-empty and
\* shorter than 50, in the order of first occurrence (dict insertion order)
RECURSIVE PasswordUsage(_, _)
PasswordUsage(creds, usage) ==
    IF creds = <<>> THEN usage
    ELSE LET pwd == Head(creds).row.password
         IN IF StrTruthy(pwd) /\ Len(pwd) > 0 /\ Len(pwd) < MaxSecretLen
            THEN IF \E k \in DOMAIN usage : usage[k].pwd = pwd
                 THEN LET k == CHOOSE k \in DOMAIN usage : usage[k].pwd = pwd
                      IN PasswordUsage(Tail(creds),
                                       [usage EXCEPT ![k].cnt = @ + 1])
                 ELSE PasswordUsage(Tail(creds),
                                    Append(usage, [pwd |-> pwd, cnt |-> 1]))
            ELSE PasswordUsage(Tail(creds), usage)

\* list.sort(key=lambda x: x[1], reverse=True): stable, highest count first
RECURSIVE SortByCountDesc(_, _)
SortByCountDesc(pairs, highest) ==
    IF highest < 1 THEN <<>>
    ELSE LET Is(x) == x.cnt = highest
         IN SelectSeq(pairs, Is) \o SortByCountDesc(pairs, highest - 1)

\* the candidate list cut to five entries before it is sorted
spray_candidates_first_five(usage) ==
    LET Reused(x) == x.cnt >= 2
        cands == SelectSeq(usage, Reused)
        first == SubSeq(cands, 1, IF Len(cands) < SprayLimit THEN Len(cands)
                                  ELSE SprayLimit)
    IN SortByCountDesc(first, Len(usage) + 3)

\* lines 778-782: the secrets used at least twice, sorted, the first five
spray_candidates(usage) ==
    LET Reused(x) == x.cnt >= 2
        cands == SelectSeq(usage, Reused)
        highest == IF cands = <<>> THEN 0
                   ELSE CHOOSE c \in {cands[k].cnt : k \in DOMAIN cands} :
                           \A k \in DOMAIN cands : cands[k].cnt <= c
        sorted == SortByCountDesc(cands, highest)
    IN SubSeq(sorted, 1, IF Len(sorted) < SprayLimit THEN Len(sorted)
                         ELSE SprayLimit)

\* get_analytics from the line after total_hosts was summed: the entries
\* computed from the hosts, users and admin_relations tables
AnalyticsOf(st, total_hosts) ==
    LET pwned_hosts == CountDistinct(st, "smb", "admin_relations", "hostid")
        all_creds == CollectRows(st, engines(st), "users")
        usage == PasswordUsage(all_creds, <<>>)
        unique_creds == {<<Lower(all_creds[k].row.domain),
                           Lower(all_creds[k].row.username)>> :
                         k \in DOMAIN all_creds}
        OfType(t) == Cardinality({k \in DOMAIN all_creds :
                        CredTypeClass(all_creds[k].row.credtype) = t})
    IN [total_hosts |-> total_hosts,
        pwn_rate |-> IF total_hosts > 0
                     THEN Hundredths(pwned_hosts, total_hosts) ELSE 0,
        cred_types |-> [t \in {"plaintext", "hash", "ticket"} |-> OfType(t)],
        unique_passwords |-> Len(usage),
        password_spraying_candidates |-> spray_candidates(usage),
        cred_reuse_rate |->
            IF Len(all_creds) > 0
            THEN Hundredths(Len(all_creds) - Cardinality(unique_creds),
                            Len(all_creds))
            ELSE 0,
        attack_paths |-> CountRows(st, "smb", "admin_relations")]

\* get_analytics counting only the hosts added since the last diff request
get_analytics_since_baseline(st) ==
    AnalyticsOf(st, SumCounts(st, engines(st), "hosts")
                    - (IF _last_counts = None THEN 0
                       ELSE _last_counts[1].hosts))

get_analytics(st) == AnalyticsOf(st, SumCounts(st, engines(st), "hosts"))

(***************************************************************************)
(* Paginator                                                               *)
(***************************************************************************)
FilterKeys == {"kind", "flag"}
FilterValues == {0, 1}

\* the data source handed to the constructor: the items are 1..total_items,
\* a filter keeps the items whose attribute has the filter's value, and the
\* window is cut the way the DashboardDB queries cut theirs
ItemAttr(item, key) == IF key = "kind" THEN item % 2 ELSE (item \div 2) % 2

data_source(total_items, page, page_size, filters) ==
    LET Matches(item) == \A k \in DOMAIN filters : ItemAttr(item, k) = filters[k]
        list == SelectSeq([i \in 1..total_items |-> i], Matches)
        start == (page - 1) * page_size
    IN [items |-> Slice(list, start, start + page_size), total |-> Len(list)]

Max(a, b) == IF a >= b THEN a ELSE b
Min(a, b) == IF a <= b THEN a ELSE b

\* max(1, (total + page_size - 1) // page_size)
TotalPagesFloor(total, page_size) == Max(1, total \div page_size)

TotalPages(total, page_size) == Max(1, (total + page_size - 1) \div page_size)

Paginator(page_size) ==
    [page_size |-> page_size, current_page |-> 1, filters |-> <<>>,
     sort_by |-> NoneStr, sort_desc |-> FALSE]

\* get_page(page): the paginator after the call and the PaginationResult;
\* page is None or Some(n)
get_page(pg, total_items, page) ==
    LET requested == IF page # None THEN Max(1, page[1]) ELSE pg.current_page
        fetched == data_source(total_items, requested, pg.page_size, pg.filters)
        total_pages == TotalPages(fetched.total, pg.page_size)
        current == IF requested > total_pages THEN total_pages ELSE requested
    IN [pg |-> [pg EXCEPT !.current_page = current],
        result |-> [items |-> fetched.items, page |-> current,
                    page_size |-> pg.page_size, total_items |-> fetched.total,
                    total_pages |-> total_pages,
                    has_next |-> current < total_pages,
                    has_prev |-> current > 1]]

next_page(pg, total_items) ==
    LET first == get_page(pg, total_items, None)
        moved == IF first.result.has_next
                 THEN [first.pg EXCEPT !.current_page = @ + 1] ELSE first.pg
    IN get_page(moved, total_items, None)

prev_page(pg, total_items) ==
    get_page(IF pg.current_page > 1 THEN [pg EXCEPT !.current_page = @ - 1]
             ELSE pg, total_items, None)

first_page(pg, total_items) ==
    get_page([pg EXCEPT !.current_page = 1], total_items, None)

last_page(pg, total_items) ==
    LET total == data_source(total_items, 1, pg.page_size, pg.filters).total
    IN get_page([pg EXCEPT !.current_page = TotalPages(total, pg.page_size)],
                total_items, None)

goto_page(pg, total_items, page) == get_page(pg, total_items, Some(Max(1, page)))

\* self.filters[key] = value
WithFilter(filters, key, value) ==
    [k \in DOMAIN filters \cup {key} |-> IF k = key THEN value ELSE filters[k]]

\* del self.filters[key]
WithoutFilter(filters, key) == [k \in DOMAIN filters \ {key} |-> filters[k]]

set_filter_keep_page(pg, key, value) ==
    [pg EXCEPT !.filters = WithFilter(pg.filters, key, value)]

set_filter(pg, key, value) ==
    [pg EXCEPT !.filters = WithFilter(pg.filters, key, value),
               !.current_page = 1]

clear_filter(pg, key) ==
    IF key \in DOMAIN pg.filters
    THEN [pg EXCEPT !.filters = WithoutFilter(pg.filters, key),
                    !.current_page = 1]
    ELSE pg

clear_filters(pg) == [pg EXCEPT !.filters = <<>>, !.current_page = 1]

set_sort(pg, column, descending) ==
    [pg EXCEPT !.sort_by = column, !.sort_desc = descending,
               !.current_page = 1]

(***************************************************************************)
(* ResponsiveTable                                                         *)
(***************************************************************************)
PRIORITY_CRITICAL == 1
PRIORITY_HIGH == 2
PRIORITY_MEDIUM == 3
PRIORITY_LOW == 4

WIDTH_NARROW == 80
WIDTH_MEDIUM == 120
WIDTH_WIDE == 160

\* the tier a terminal width admits
MaxPriorityHighWhenNarrow(width) ==
    IF width < WIDTH_MEDIUM THEN PRIORITY_HIGH
    ELSE IF width < WIDTH_WIDE THEN PRIORITY_MEDIUM
    ELSE PRIORITY_LOW

MaxPriorityAllTiersFrom120(width) ==
    IF width < WIDTH_NARROW THEN PRIORITY_CRITICAL
    ELSE IF width < WIDTH_MEDIUM THEN PRIORITY_HIGH
    ELSE PRIORITY_LOW

MaxPriority(width) ==
    IF width < WIDTH_NARROW THEN PRIORITY_CRITICAL
    ELSE IF width < WIDTH_MEDIUM THEN PRIORITY_HIGH
    ELSE IF width < WIDTH_WIDE THEN PRIORITY_MEDIUM
    ELSE PRIORITY_LOW

\* sum(c.width or 10 for c in visible) + len(visible); a width of 0 stands
\* for None (both count as 10)
RECURSIVE SumWidths(_)
SumWidths(cols) ==
    IF cols = <<>> THEN 0
    ELSE (IF Head(cols).width # 0 THEN Head(cols).width ELSE 10)
         + SumWidths(Tail(cols))

TotalWidth(cols) == SumWidths(cols) + Len(cols)

\* a sort by priority that is not stable: columns of equal priority come
\* out in the reverse of their order in cols
SortedByPriorityTiesReversed(cols) ==
    LET Rev(q) == [k \in 1..Len(q) |-> q[Len(q) + 1 - k]]
        Tier(p) == LET Is(c) == c.priority = p IN Rev(SelectSeq(cols, Is))
    IN Tier(PRIORITY_CRITICAL) \o Tier(PRIORITY_HIGH)
       \o Tier(PRIORITY_MEDIUM) \o Tier(PRIORITY_LOW)

\* sorted(visible, key=lambda c: c.priority): a stable sort
SortedByPriority(cols) ==
    LET Tier(p) == LET Is(c) == c.priority = p IN SelectSeq(cols, Is)
    IN Tier(PRIORITY_CRITICAL) \o Tier(PRIORITY_HIGH)
       \o Tier(PRIORITY_MEDIUM) \o Tier(PRIORITY_LOW)

\* the while loop of get_visible_columns
RECURSIVE DropWhileTooWide(_, _)
DropWhileTooWide(cols, width) ==
    IF TotalWidth(cols) > width - 6 /\ Len(cols) > 1
    THEN LET sorted == SortedByPriority(cols)
         IN DropWhileTooWide(SubSeq(sorted, 1, Len(sorted) - 1), width)
    ELSE cols

get_visible_columns(cols, width) ==
    LET Admitted(c) == c.priority <= MaxPriority(width)
    IN DropWhileTooWide(SelectSeq(cols, Admitted), width)

(***************************************************************************)
(* HostsPage and CredsPage                                                 *)
(***************************************************************************)
HostsPage ==
    [current_page |-> 1, filters |-> NoHostFilters, total |-> 0,
     selection_mode |-> FALSE, selected_row |-> 0, custom_title |-> NoneStr,
     cached |-> <<>>]

CredsPage ==
    [current_page |-> 1, filters |-> "none", total |-> 0, unmask |-> FALSE,
     selection_mode |-> FALSE, selected_row |-> 0, custom_title |-> NoneStr,
     cached |-> <<>>]

\* max(5, console.size.height - 11)
_get_page_size(height) == Max(5, height - 11)

enter_selection_mode(page, title) ==
    [page EXCEPT !.selection_mode = TRUE, !.selected_row = 0,
                 !.custom_title = title]

exit_selection_mode(page) ==
    [page EXCEPT !.selection_mode = FALSE, !.selected_row = 0,
                 !.custom_title = NoneStr]

\* get_selected_host / get_selected_cred: None or the cached row
get_selected(page) ==
    IF page.cached # <<>> /\ 0 <= page.selected_row
       /\ page.selected_row < Len(page.cached)
    THEN Some(page.cached[page.selected_row + 1])
    ELSE None

\* HostsPage.render: fetch the current data page and cache its rows
hosts_render(page, st, height) ==
    LET got == get_hosts(st, page.current_page, _get_page_size(height),
                         page.filters)
    IN [page EXCEPT !.cached = got.items, !.total = got.total]

\* CredsPage.render
creds_render(page, st, height) ==
    LET got == get_credentials(st, page.current_page, _get_page_size(height),
                               page.filters)
    IN [page EXCEPT !.cached = got.items, !.total = got.total]

\* HostsPage.handle_key: the page after the call and the value returned
\* ("True", "False", "selected" or "enter_selection")
hosts_handle_key(page, key, height) ==
    LET total_pages == TotalPages(page.total, _get_page_size(height))
        num_rows == Len(page.cached)
        Ret(pg, value) == [page |-> pg, result |-> value]
        nav ==
            IF key \in {"right", "l"}
            THEN Ret(IF page.current_page < total_pages
                     THEN [page EXCEPT !.current_page = @ + 1,
                                       !.selected_row = 0]
                     ELSE page, "True")
            ELSE IF key \in {"left", "h"}
            THEN Ret(IF page.current_page > 1
                     THEN [page EXCEPT !.current_page = @ - 1,
                                       !.selected_row = 0]
                     ELSE page, "True")
            ELSE IF key = "g"
            THEN Ret([page EXCEPT !.current_page = 1, !.selected_row = 0],
                     "True")
            ELSE IF key = "G"
            THEN Ret([page EXCEPT !.current_page = total_pages,
                                  !.selected_row = 0], "True")
            ELSE IF key = "s" /\ ~page.selection_mode
            THEN Ret([page EXCEPT !.filters.has_shares = ~@,
                                  !.current_page = 1], "True")
            ELSE IF key = "c" /\ ~page.selection_mode
            THEN Ret([page EXCEPT !.filters.has_creds = ~@,
                                  !.current_page = 1], "True")
            ELSE IF key = "x" /\ ~page.selection_mode
            THEN Ret([page EXCEPT !.filters = NoHostFilters,
                                  !.current_page = 1], "True")
            ELSE Ret(page, "False")
    IN IF page.selection_mode /\ key \in {"up", "w"}
       THEN Ret([page EXCEPT !.selected_row = Max(0, @ - 1)], "True")
       ELSE IF page.selection_mode /\ key \in {"down", "s"}
       THEN Ret([page EXCEPT !.selected_row = Min(num_rows - 1, @ + 1)],
                "True")
       ELSE IF page.selection_mode /\ key = "\r"
       THEN Ret(page, "selected")
       ELSE IF ~page.selection_mode /\ key = "down" /\ num_rows > 0
       THEN Ret([page EXCEPT !.selected_row = 0], "enter_selection")
       ELSE IF ~page.selection_mode /\ key = "up" /\ num_rows > 0
       THEN Ret([page EXCEPT !.selected_row = num_rows - 1],
                "enter_selection")
       ELSE nav

\* CredsPage.handle_key ("cancelled" is one more value it returns)
creds_handle_key(page, key, height) ==
    LET total_pages == TotalPages(page.total, _get_page_size(height))
        max_row == Len(page.cached) - 1
        Ret(pg, value) == [page |-> pg, result |-> value]
        nav ==
            IF key \in {"right", "l"}
            THEN Ret(IF page.current_page < total_pages
                     THEN [page EXCEPT !.current_page = @ + 1]
                     ELSE page, "True")
            ELSE IF key \in {"left", "h"}
            THEN Ret(IF page.current_page > 1
                     THEN [page EXCEPT !.current_page = @ - 1]
                     ELSE page, "True")
            ELSE IF key = "g"
            THEN Ret([page EXCEPT !.current_page = 1], "True")
            ELSE IF key = "G"
            THEN Ret([page EXCEPT !.current_page = total_pages], "True")
            ELSE IF key = "u"
            THEN Ret([page EXCEPT !.unmask = ~@], "True")
            ELSE IF key = "p"
            THEN Ret([page EXCEPT !.filters = "plaintext",
                                  !.current_page = 1], "True")
            ELSE IF key = "H"
            THEN Ret([page EXCEPT !.filters = "hash", !.current_page = 1],
                     "True")
            ELSE IF key = "x"
            THEN Ret([page EXCEPT !.filters = "none", !.current_page = 1],
                     "True")
            ELSE Ret(page, "False")
    IN IF page.selection_mode /\ key \in {"up", "w"}
       THEN Ret(IF page.selected_row > 0
                THEN [page EXCEPT !.selected_row = @ - 1] ELSE page, "True")
       ELSE IF page.selection_mode /\ key \in {"down", "s"}
       THEN Ret(IF page.selected_row < max_row
                THEN [page EXCEPT !.selected_row = @ + 1] ELSE page, "True")
       ELSE IF page.selection_mode /\ key = "\r"
       THEN Ret(page, "selected")
       ELSE IF page.selection_mode /\ key \in {"q", "escape"}
       THEN Ret(exit_selection_mode(page), "cancelled")
       ELSE IF ~page.selection_mode /\ key = "down" /\ max_row >= 0
       THEN Ret([page EXCEPT !.selected_row = 0], "enter_selection")
       ELSE IF ~page.selection_mode /\ key = "up" /\ max_row >= 0
       THEN Ret([page EXCEPT !.selected_row = max_row], "enter_selection")
       ELSE nav

(***************************************************************************)
(* DashboardApp.  The operators below work on a record w of the objects    *)
(* one key press can touch: w.app (the DashboardApp fields), w.cb (its     *)
(* CommandBuilder), w.hosts and w.creds (pages 1 and 2), and w.go, the     *)
(* value handle_input returns (False ends the loop).                       *)
(***************************************************************************)
NumPages == 9
HostsIdx == 1
CredsIdx == 2

DashboardApp(start_page) ==
    [current_page_idx |-> Min(start_page - 1, NumPages - 1),
     show_help |-> FALSE, needs_redraw |-> TRUE,
     generated_command |-> NoneStr, show_command_result |-> FALSE,
     execute_command |-> NoneStr]

\* the keys "1" .. "9": int(key) is the key's position
DigitKeys == <<"1", "2", "3", "4", "5", "6", "7", "8", "9">>

Redraw(w) == [w EXCEPT !.app.needs_redraw = TRUE]

_cancel_selection_keep_pages(w) ==
    [w EXCEPT !.cb = reset,
              !.app.generated_command = NoneStr,
              !.app.show_command_result = FALSE]

_cancel_selection(w) ==
    [w EXCEPT !.cb = reset,
              !.hosts = exit_selection_mode(w.hosts),
              !.creds = exit_selection_mode(w.creds),
              !.app.generated_command = NoneStr,
              !.app.show_command_result = FALSE]

\* draw(): the page shown is rendered unless a panel covers it
draw(w, st, height) ==
    IF w.app.show_command_result /\ StrTruthy(w.app.generated_command) THEN w
    ELSE IF needs_protocol_selection(w.cb) THEN w
    ELSE IF w.app.show_help THEN w
    ELSE IF w.app.current_page_idx = HostsIdx
    THEN [w EXCEPT !.hosts = hosts_render(w.hosts, st, height)]
    ELSE IF w.app.current_page_idx = CredsIdx
    THEN [w EXCEPT !.creds = creds_render(w.creds, st, height)]
    ELSE w

\* handle_input, lines 282-300: the command result panel is open
CommandPanelKey(w, key, clip_ok) ==
    IF key = "c"
    THEN IF clip_ok
         THEN Redraw([w EXCEPT !.app.generated_command = NoneStr,
                               !.app.show_command_result = FALSE])
         ELSE w
    ELSE IF key \in {"x", "\r"}
    THEN [w EXCEPT !.app.execute_command = w.app.generated_command,
                   !.go = FALSE]
    ELSE IF key \in {"q", "escape"}
    THEN Redraw([w EXCEPT !.app.generated_command = NoneStr,
                          !.app.show_command_result = FALSE])
    ELSE w

\* handle_input, lines 309-315: the protocol was confirmed
ProtocolConfirmed(w) ==
    [w EXCEPT !.app.generated_command = build_command(w.cb),
              !.app.show_command_result = TRUE,
              !.cb = reset,
              !.hosts = exit_selection_mode(w.hosts),
              !.creds = exit_selection_mode(w.creds)]

\* handle_input, lines 328-356: the current page reported "selected"
SelectionMade(w) ==
    IF w.cb.state = "select_host"
    THEN LET host == get_selected(w.hosts) IN
         IF ~IsTruthy(host) THEN w
         ELSE LET cb1 == set_host(w.cb, host[1])
                  w1 == [w EXCEPT !.cb = cb1,
                                  !.hosts = exit_selection_mode(w.hosts)]
              IN IF cb1.state = "select_user"
                 THEN [w1 EXCEPT
                         !.app.current_page_idx = CredsIdx,
                         !.creds = enter_selection_mode(w.creds,
                                                        "Select Credential")]
                 ELSE w1
    ELSE IF w.cb.state = "select_user" /\ w.app.current_page_idx = CredsIdx
    THEN LET user_data == get_selected(w.creds)
             w1 == [w EXCEPT !.creds = exit_selection_mode(w.creds)]
         IN IF ~IsTruthy(user_data) THEN w1
            ELSE LET cb1 == set_user(w.cb, user_data[1])
                     w2 == [w1 EXCEPT !.cb = cb1]
                 IN IF cb1.state = "select_host"
                    THEN [w2 EXCEPT
                            !.app.current_page_idx = HostsIdx,
                            !.hosts = enter_selection_mode(w.hosts,
                                                           "Select Host")]
                    ELSE w2
    ELSE w

\* self.current_page.handle_key(key, console): pages other than the hosts
\* and the credentials page keep no state that the selection reads
PageHandleKey(w, key, height) ==
    IF w.app.current_page_idx = HostsIdx
    THEN LET r == hosts_handle_key(w.hosts, key, height)
         IN [w |-> [w EXCEPT !.hosts = r.page], result |-> r.result]
    ELSE IF w.app.current_page_idx = CredsIdx
    THEN LET r == creds_handle_key(w.creds, key, height)
         IN [w |-> [w EXCEPT !.creds = r.page], result |-> r.result]
    ELSE [w |-> w, result |-> "False"]

\* handle_input, lines 320-361: a selection is active
SelectionKey(w, key, height) ==
    IF key = "q" THEN Redraw(_cancel_selection(w))
    ELSE LET r == PageHandleKey(w, key, height)
         IN Redraw(IF r.result = "selected" THEN SelectionMade(r.w) ELSE r.w)

\* start_selection(...) and enter_selection_mode(...) of lines 398-420
StartFromHosts(w) ==
    Redraw([w EXCEPT !.cb = start_selection("hosts"),
                     !.hosts = enter_selection_mode(w.hosts, "Select Host")])

StartFromCreds(w) ==
    Redraw([w EXCEPT !.cb = start_selection("users"),
                     !.creds = enter_selection_mode(w.creds,
                                                    "Select Credential")])

\* handle_input, lines 424-429
PassToPage(w, key, height) ==
    IF w.app.show_help THEN w
    ELSE LET r == PageHandleKey(w, key, height)
         IN IF r.result # "False" THEN Redraw(r.w) ELSE r.w

\* handle_input, lines 364-429: the global shortcuts
GlobalKey(w, key, height) ==
    LET idx == w.app.current_page_idx
        ShowPage(i) == Redraw([w EXCEPT !.app.current_page_idx = i,
                                        !.app.show_help = FALSE])
    IN IF key = "q" THEN [w EXCEPT !.go = FALSE]
       ELSE IF key = "?" THEN Redraw([w EXCEPT !.app.show_help = ~@])
       ELSE IF key = "r" THEN Redraw(w)
       ELSE IF \E d \in DOMAIN DigitKeys : DigitKeys[d] = key
       THEN LET page_num == (CHOOSE d \in DOMAIN DigitKeys :
                                DigitKeys[d] = key) - 1
            IN IF page_num < NumPages THEN ShowPage(page_num) ELSE w
       ELSE IF key \in {"\t", "l", "right"} THEN ShowPage((idx + 1) % NumPages)
       ELSE IF key \in {"h", "left"} THEN ShowPage((idx - 1) % NumPages)
       ELSE IF key = "\r" /\ idx = HostsIdx THEN StartFromHosts(w)
       ELSE IF key = "\r" /\ idx = CredsIdx THEN StartFromCreds(w)
       ELSE IF key \in {"up", "down"} /\ idx = HostsIdx
       THEN LET r == hosts_handle_key(w.hosts, key, height)
                w1 == [w EXCEPT !.hosts = r.page]
            IN IF r.result = "enter_selection" THEN StartFromHosts(w1)
               ELSE Redraw(w1)
       ELSE IF key \in {"up", "down"} /\ idx = CredsIdx
       THEN LET r == creds_handle_key(w.creds, key, height)
                w1 == [w EXCEPT !.creds = r.page]
            IN IF r.result = "enter_selection" THEN StartFromCreds(w1)
               ELSE Redraw(w1)
       ELSE PassToPage(w, key, height)

(***************************************************************************)
(* The state every specification starts the other components in            *)
(***************************************************************************)
NoInput == [key |-> NoneStr, branch |-> "none"]

NoCall == [op |-> "none", arg |-> 0, key |-> "", ret |-> None]

AppIdle ==
    /\ pc = "loop"
    /\ app = DashboardApp(1)
    /\ terminal_height = 24
    /\ hosts_page = HostsPage
    /\ creds_page = CredsPage
    /\ last_input = NoInput
    /\ screen = "none"
    /\ connections = NoConnections

PgIdle ==
    /\ paginator = Paginator(20)
    /\ data_total = 0
    /\ page_result = NoCall

RtIdle ==
    /\ columns = <<>>
    /\ terminal_width = 80
    /\ visible = None

DbIdle ==
    /\ stores = [p \in ProtocolNames |-> NoStore]
    /\ hosts_result = None
    /\ creds_result = None

RegIdle ==
    /\ query_result = None
    /\ _last_counts = None
    /\ diff_result = None
    /\ analytics_result = None

(***************************************************************************)
(* SpecCB: the CommandBuilder, call by call                                *)
(***************************************************************************)
CBSpecInit == CBInit /\ AppIdle /\ PgIdle /\ RtIdle /\ DbIdle /\ RegIdle

SpecCB == CBSpecInit /\ [][CBNext]_vars

\* C1: for a chosen host with IP t, a confirmed protocol p and a chosen
\* credential (d, u, s, c) with u and s non-empty, build_command returns
\* "nxc p t -u d\u" ("nxc p t -u u" when d is empty) followed by "-H s" when
\* c is hash and by -p "s" otherwise; with no credential chosen it returns
\* exactly "nxc p t".  Host 10.0.0.5, credential CORP\alice / hunter2 and
\* protocol smb, started from the host list, give
\* nxc smb 10.0.0.5 -u CORP\alice -p "hunter2".
C1_BuildCommandGrammar ==
    (/\ build_result # NoneStr
     /\ command_builder.selected_host # None
     /\ command_builder.selected_protocol # NoneStr)
    =>
    LET t == command_builder.selected_host[1].ip
        p == command_builder.selected_protocol
        head == "nxc " \o p \o " " \o t
    IN /\ command_builder.selected_user = None => build_result = head
       /\ command_builder.selected_user # None =>
            LET d == command_builder.selected_user[1].domain
                u == command_builder.selected_user[1].username
                s == command_builder.selected_user[1].password
                c == command_builder.selected_user[1].credtype
            IN (u # "" /\ s # "") =>
                 build_result =
                    head \o " -u " \o (IF d = "" THEN u ELSE d \o "\\" \o u)
                         \o (IF c = "hash" THEN " -H " \o s
                             ELSE " -p \"" \o s \o "\"")
       /\ (/\ command_builder.start_from = "hosts"
           /\ t = "10.0.0.5" /\ p = "smb"
           /\ command_builder.selected_user
                = Some(Cred(1, "CORP", "alice", "hunter2", "plaintext")))
          => build_result = "nxc smb 10.0.0.5 -u CORP\\alice -p \"hunter2\""

C1_Witness_AliceOnSmb ==
    /\ command_builder.start_from = "hosts"
    /\ command_builder.state = "done"
    /\ command_builder.selected_user # None
    /\ build_result = "nxc smb 10.0.0.5 -u CORP\\alice -p \"hunter2\""

\* C4: command synthesis yields the empty string whenever the selection is
\* incomplete: no host chosen, no protocol confirmed, or the confirmed
\* protocol requires a credential (every catalog protocol except vnc and
\* nfs) and no credential was chosen.
C4_EmptyWhenIncomplete ==
    (/\ build_result # NoneStr
     /\ \/ command_builder.selected_host = None
        \/ command_builder.selected_protocol = NoneStr
        \/ /\ command_builder.selected_protocol \notin {"vnc", "nfs"}
           /\ command_builder.selected_user = None)
    => build_result = ""

\* the map, the catalog and the candidate list as C5 states them
C5_Codes ==
    [S |-> "smb", L |-> "ldap", W |-> "winrm", M |-> "mssql",
     R |-> "rdp", F |-> "ftp", V |-> "vnc", N |-> "nfs"]

C5_Catalog ==
    <<"smb", "ldap", "winrm", "ssh", "mssql", "rdp", "ftp", "wmi", "vnc",
      "nfs">>

C5_Candidates(cb) ==
    LET known == SelectSeq(cb.selected_host[1].protocols,
                           LAMBDA c : c \in DOMAIN C5_Codes)
    IN IF known = <<>> THEN C5_Catalog
       ELSE [i \in 1..Len(known) |-> C5_Codes[known[i]]]

\* C5: for a chosen host with protocol-code string P the candidate list is
\* exactly the protocols decoded from the letters of P through the map
\* S smb, L ldap, W winrm, M mssql, R rdp, F ftp, V vnc, N nfs, in the order
\* of P, and the full catalog when no letter decodes; a protocol confirmed
\* with Enter is a member of the candidate list.
C5_CandidatesAreDecodedLetters ==
    /\ [](command_builder.selected_host # None =>
            get_available_protocols(command_builder)
              = C5_Candidates(command_builder))
    /\ [][(/\ command_builder.selected_host # None
           /\ raised' = "none"
           /\ command_builder'.state = "done"
           /\ command_builder'.selected_protocol
                # command_builder.selected_protocol)
          => \E i \in 1..Len(C5_Candidates(command_builder)) :
                command_builder'.selected_protocol
                  = C5_Candidates(command_builder)[i]]_vars

C5_Witness_WinrmConfirmed ==
    /\ command_builder.state = "done"
    /\ command_builder.selected_host # None
    /\ command_builder.selected_host[1].protocols = <<"S", "W">>
    /\ command_builder.selected_protocol = "winrm"

\* C20: whatever the order of the calls of start_selection, set_host and
\* set_user, the state is select_protocol only when a host has been chosen.
C20_ProtocolOnlyWithHost ==
    command_builder.state = "select_protocol"
    => command_builder.selected_host # None

(***************************************************************************)
(* SpecApp: the main loop of DashboardApp.run.  One step is one iteration  *)
(* of the loop: draw() when a redraw is pending, get_key(), handle_input(). *)
(* The iteration in which Enter confirms a protocol takes two steps, so    *)
(* that the CommandBuilder's state between handle_protocol_key returning   *)
(* True (line 308) and the reset of line 313 is a state of the model.      *)
(***************************************************************************)
HostRow(ip, hostname, os) ==
    [ip |-> ip, hostname |-> hostname, domain |-> "CORP", os |-> os,
     dc |-> FALSE, signing |-> NoneStr]

UserRow(domain, username, password, credtype) ==
    [domain |-> domain, username |-> username, password |-> password,
     credtype |-> credtype, pillaged_from_hostid |-> 0]

AllTables == {"hosts", "users", "shares", "admin_relations"}

LiveStore(host_rows, user_rows) ==
    [NoStore EXCEPT !.live = TRUE, !.tables = AllTables,
                    !.hosts = host_rows, !.users = user_rows]

\* the workspaces the dashboard is opened on
AppStores ==
    { [p \in ProtocolNames |->
         CASE p = "smb" ->
                LiveStore(<< HostRow("10.0.0.5", "DC01", "Windows Server"),
                             HostRow("10.0.0.6", "", ""),
                             HostRow("10.0.0.7", "WS01", ""),
                             HostRow("10.0.0.8", "", ""),
                             HostRow("10.0.0.9", "", ""),
                             HostRow("10.0.0.10", "", "") >>,
                          << UserRow("CORP", "alice", "hunter2", "plaintext"),
                             UserRow("", "root", "31d6cfe0d16ae931", "hash"),
                             UserRow("CORP", "bob", "", "plaintext") >>)
           [] p = "ldap" ->
                LiveStore(<< HostRow("10.0.0.5", "", "") >>,
                          << UserRow("corp", "Alice", "hunter2",
                                     "plaintext") >>)
           [] p = "vnc" ->
                LiveStore(<< HostRow("10.0.0.6", "", ""),
                             HostRow("10.0.0.5", "", "") >>, <<>>)
           [] OTHER -> NoStore],
      [p \in ProtocolNames |->
         CASE p = "winrm" ->
                [LiveStore(<< HostRow("10.0.0.7", "WS01", "") >>, <<>>)
                   EXCEPT !.tables = {"hosts"}]
           [] OTHER -> NoStore],
      [p \in ProtocolNames |-> NoStore] }

\* console.size.height: 16 lines give data pages of 5 rows, 17 lines of 6
AppHeights == {16, 17}

StartPages == {1, 2}

AppKeys ==
    {"q", "r", "\r", "up", "down", "right", "c", "x", "escape", "?", "2"}

AppSpecInit ==
    /\ CBInit /\ PgIdle /\ RtIdle /\ RegIdle
    /\ pc = "loop"
    /\ app \in {DashboardApp(start_page) : start_page \in StartPages}
    /\ terminal_height \in AppHeights
    /\ hosts_page = HostsPage
    /\ creds_page = CredsPage
    /\ last_input = NoInput
    /\ screen = "none"
    /\ stores \in AppStores
    /\ connections = _connect_all(stores)
    /\ hosts_result = None
    /\ creds_result = None

\* the objects handle_input works on, before and after the pending draw()
World ==
    [app |-> app, cb |-> command_builder, hosts |-> hosts_page,
     creds |-> creds_page, go |-> TRUE]

\* run(), lines 523-531: the objects after self.draw() returned
DrawnPage ==
    [draw(World, stores, terminal_height) EXCEPT !.app.needs_redraw = FALSE]

\* the objects after self.draw() raised: nothing draw() would have assigned
\* is kept, and the except block prints the "Render error" banner with
\* "Press 'r' to retry, 'q' to quit."
DrawnError == [World EXCEPT !.app.needs_redraw = FALSE]

Drawn(ok) == IF ok THEN DrawnPage ELSE DrawnError

AppFrame ==
    UNCHANGED <<build_result, terminal_height, connections, pgVars, rtVars,
                dbVars, regVars>>

\* handle_input returned: w holds the objects, w.go the value returned
Returned(w, key, branch) ==
    /\ app' = w.app
    /\ command_builder' = w.cb
    /\ hosts_page' = w.hosts
    /\ creds_page' = w.creds
    /\ pc' = IF w.go THEN "loop" ELSE "exit"
    /\ last_input' = [key |-> key, branch |-> branch]
    /\ raised' = "none"
    /\ screen' = screen
    /\ AppFrame

DrawStepped(w, ok) ==
    /\ app' = w.app
    /\ hosts_page' = w.hosts
    /\ creds_page' = w.creds
    /\ screen' = IF ok THEN "page" ELSE "error"
    /\ last_input' = NoInput
    /\ UNCHANGED <<cbVars, pc>>
    /\ AppFrame

\* run(), lines 523-531: at the top of an iteration with needs_redraw set,
\* self.draw() is attempted before a key is read; an exception it raises is
\* caught and replaced by the banner
App_Draw ==
    /\ pc = "loop"
    /\ app.needs_redraw
    /\ \E ok \in BOOLEAN : DrawStepped(Drawn(ok), ok)

\* get_key() returned None
App_NoKey ==
    /\ pc = "loop"
    /\ ~app.needs_redraw
    /\ Returned(World, NoneStr, "none")

App_CommandPanelKey ==
    /\ pc = "loop"
    /\ ~app.needs_redraw
    /\ PanelOpen
    /\ \E key \in AppKeys, clip_ok \in BOOLEAN :
          Returned(CommandPanelKey(World, key, clip_ok), key, "panel")

\* handle_input, lines 303-308: the protocol popup is open.  The result is
\* the objects after the call and where the loop goes: on ("loop"), to the
\* lines after handle_protocol_key returned True ("confirm"), or out with
\* the IndexError of available[self.protocol_index] ("exit")
ProtocolPopupKey(w, key) ==
    IF key = "q"
    THEN [w |-> Redraw(_cancel_selection(w)), pc |-> "loop",
          raised |-> "none"]
    ELSE IF ProtocolKeyRaises(w.cb, key)
    THEN [w |-> w, pc |-> "exit", raised |-> "IndexError"]
    ELSE IF protocol_key_selects(w.cb, key)
    THEN [w |-> [w EXCEPT !.cb = handle_protocol_key(w.cb, key)],
          pc |-> "confirm", raised |-> "none"]
    ELSE [w |-> Redraw([w EXCEPT !.cb = handle_protocol_key(w.cb, key)]),
          pc |-> "loop", raised |-> "none"]

PopupStepped(r, key) ==
    /\ app' = r.w.app
    /\ command_builder' = r.w.cb
    /\ hosts_page' = r.w.hosts
    /\ creds_page' = r.w.creds
    /\ pc' = r.pc
    /\ raised' = r.raised
    /\ last_input' = [key |-> key, branch |-> "protocol"]
    /\ screen' = screen
    /\ AppFrame

App_ProtocolKey ==
    /\ pc = "loop"
    /\ ~app.needs_redraw
    /\ ~PanelOpen
    /\ needs_protocol_selection(command_builder)
    /\ \E key \in AppKeys : PopupStepped(ProtocolPopupKey(World, key), key)

\* lines 309-317, after handle_protocol_key returned True
App_ProtocolConfirmed ==
    /\ pc = "confirm"
    /\ Returned(Redraw(ProtocolConfirmed(World)), last_input.key, "protocol")

App_SelectionKey ==
    /\ pc = "loop"
    /\ ~app.needs_redraw
    /\ ~PanelOpen
    /\ ~needs_protocol_selection(command_builder)
    /\ is_active(command_builder)
    /\ \E key \in AppKeys :
          Returned(SelectionKey(World, key, terminal_height), key, "selection")

App_GlobalKey ==
    /\ pc = "loop"
    /\ ~app.needs_redraw
    /\ ~PanelOpen
    /\ ~needs_protocol_selection(command_builder)
    /\ ~is_active(command_builder)
    /\ \E key \in AppKeys :
          Returned(GlobalKey(World, key, terminal_height), key, "global")

\* the operator resizes the terminal between two iterations of the loop.
\* run(), lines 508-512, compares only the width with last_width: the next
\* iteration redraws when the width changed as well and not otherwise.
\* Every height here is at least the 15 lines of line 515.
App_Resize ==
    /\ pc = "loop"
    /\ \E height \in AppHeights \ {terminal_height},
          width_changed \in BOOLEAN :
          /\ terminal_height' = height
          /\ app' = [app EXCEPT !.needs_redraw = @ \/ width_changed]
    /\ UNCHANGED <<cbVars, pc, hosts_page, creds_page, last_input, screen,
                   connections, pgVars, rtVars, dbVars, regVars>>

\* KeyboardInterrupt ends the loop
App_KeyboardInterrupt ==
    /\ pc = "loop"
    /\ pc' = "exit"
    /\ last_input' = [key |-> "^C", branch |-> "none"]
    /\ UNCHANGED <<cbVars, app, hosts_page, creds_page, screen>>
    /\ AppFrame

\* the finally block of run(): the terminal is restored and self.db.close()
\* is called; what close() raises leaves run() after the finally block
App_Finally ==
    /\ pc = "exit"
    /\ pc' = "closed"
    /\ \E failing \in CloseFailures(connections) :
          LET r == close(connections, engines(stores), failing)
          IN /\ connections' = r.connections
             /\ raised' = IF r.raised = "none" THEN raised ELSE r.raised
    /\ UNCHANGED <<command_builder, build_result, app, hosts_page, creds_page,
                   last_input, screen, terminal_height, pgVars, rtVars,
                   dbVars, regVars>>

AppNext ==
    \/ App_Draw
    \/ App_NoKey
    \/ App_CommandPanelKey
    \/ App_ProtocolKey
    \/ App_ProtocolConfirmed
    \/ App_SelectionKey
    \/ App_GlobalKey
    \/ App_Resize
    \/ App_KeyboardInterrupt
    \/ App_Finally

SpecApp == AppSpecInit /\ [][AppNext]_vars

\* C2: in every run of the view controller the selection states are
\* visited in order: started on the hosts page idle, select_host,
\* select_user, select_protocol, done; started on the credentials page idle,
\* select_user, select_host, select_protocol, done.  select_protocol is
\* entered only with both a host and a credential chosen, done is reached
\* only from select_protocol, and the only other transition of any state is
\* the reset back to idle.
C2_SelectionOrder ==
    /\ [](command_builder.state \in
            {"idle", "select_host", "select_user", "select_protocol", "done"})
    /\ [](command_builder.state \in {"select_protocol", "done"} =>
            /\ command_builder.selected_host # None
            /\ command_builder.selected_user # None)
    /\ [][command_builder'.state # command_builder.state =>
            \/ /\ command_builder'.state = "idle"
               /\ command_builder'.selected_host = None
               /\ command_builder'.selected_user = None
               /\ command_builder'.selected_protocol = NoneStr
            \/ /\ command_builder.state = "idle"
               /\ command_builder'.state = "select_host"
               /\ command_builder'.start_from = "hosts"
            \/ /\ command_builder.state = "idle"
               /\ command_builder'.state = "select_user"
               /\ command_builder'.start_from = "users"
            \/ /\ command_builder'.start_from = command_builder.start_from
               /\ \/ /\ command_builder.start_from = "hosts"
                     /\ <<command_builder.state, command_builder'.state>> \in
                           { <<"select_host", "select_user">>,
                             <<"select_user", "select_protocol">>,
                             <<"select_protocol", "done">> }
                  \/ /\ command_builder.start_from = "users"
                     /\ <<command_builder.state, command_builder'.state>> \in
                           { <<"select_user", "select_host">>,
                             <<"select_host", "select_protocol">>,
                             <<"select_protocol", "done">> }]_vars

C2_Witness_DoneFromUsers ==
    /\ pc = "confirm"
    /\ command_builder.state = "done"
    /\ command_builder.start_from = "users"
    /\ command_builder.selected_host # None
    /\ command_builder.selected_user # None

\* C3: in the view controller, the key q pressed while the state machine is
\* in select_host, select_user or select_protocol leaves it in idle with
\* host, credential and protocol cleared, the protocol index 0 and the
\* origin unset, takes the hosts page and the credentials page out of
\* row-selection mode, discards any generated command and does not end the
\* program.
C3_CancelResetsSelection ==
    [][(/\ pc = "loop"
        /\ command_builder.state \in
              {"select_host", "select_user", "select_protocol"}
        /\ pc' # pc \/ app' # app \/ command_builder' # command_builder
             \/ hosts_page' # hosts_page \/ creds_page' # creds_page
             \/ last_input' # last_input
        /\ last_input'.key = "q")
       => /\ command_builder' =
                [state |-> "idle", selected_host |-> <<>>,
                 selected_user |-> <<>>, selected_protocol |-> "None",
                 protocol_index |-> 0, start_from |-> "None"]
          /\ ~hosts_page'.selection_mode
          /\ ~creds_page'.selection_mode
          /\ app'.generated_command = NoneStr
          /\ ~app'.show_command_result
          /\ pc' = "loop"]_vars

C3_Witness_CancelledSelection ==
    /\ last_input.key = "q"
    /\ last_input.branch \in {"protocol", "selection"}
    /\ pc = "loop"
    /\ command_builder.state = "idle"
    /\ ~hosts_page.selection_mode
    /\ ~creds_page.selection_mode

\* C14: once run() has left its finally block, whatever the way the loop
\* ended, a close was attempted on every session and every engine opened at
\* startup: none is still open, except the one whose close raised.
C14_CloseAttemptedOnEveryConnection ==
    pc = "closed"
    => Cardinality(connections.sessions) + Cardinality(connections.engines) <= 1

\* C15: with the "Render error" banner on the terminal, the key r handled
\* by the loop is followed by a new attempt to draw.
C15_RetryKeyRendersAgain ==
    [][(/\ pc = "loop"
        /\ screen = "error"
        /\ last_input' # last_input
        /\ last_input'.key = "r"
        /\ pc' = "loop")
       => app'.needs_redraw]_vars

\* C19: whenever the loop is between two calls of handle_input, the hosts
\* page is in row-selection mode exactly when the state machine is in
\* select_host, and the credentials page exactly when it is in select_user.
C19_SelectionModeMatchesState ==
    pc = "loop"
    => /\ hosts_page.selection_mode <=> command_builder.state = "select_host"
       /\ creds_page.selection_mode <=> command_builder.state = "select_user"

\* C21: while the hosts page or the credentials page is in row-selection
\* mode, its selected_row lies in [0, max(0, rows - 1)] for the rows the
\* page has cached, the empty list included.
C21_SelectedRowWithinCachedRows ==
    /\ hosts_page.selection_mode
       => /\ 0 <= hosts_page.selected_row
          /\ hosts_page.selected_row <= Max(0, Len(hosts_page.cached) - 1)
    /\ creds_page.selection_mode
       => /\ 0 <= creds_page.selected_row
          /\ creds_page.selected_row <= Max(0, Len(creds_page.cached) - 1)

\* the list page draw() renders: None when a panel, the popup or the help
\* covers it or another page is shown
RenderedListPage(w) ==
    IF \/ w.app.show_command_result /\ StrTruthy(w.app.generated_command)
       \/ needs_protocol_selection(w.cb)
       \/ w.app.show_help
    THEN None
    ELSE IF w.app.current_page_idx = HostsIdx THEN Some(w.hosts)
    ELSE IF w.app.current_page_idx = CredsIdx THEN Some(w.creds)
    ELSE None

\* C22: whenever a list page is rendered, the page number it fetched and
\* shows lies in [1, total_pages] for the total and the page size of that
\* render, whatever keys, resizes and data changes came before.
C22_RenderedPageNumberInRange ==
    [][(/\ pc = "loop" /\ app.needs_redraw /\ ~app'.needs_redraw
        /\ screen' = "page")
       => \A page \in {hosts_page', creds_page'} :
             RenderedListPage([app |-> app', cb |-> command_builder',
                               hosts |-> hosts_page', creds |-> creds_page',
                               go |-> TRUE]) = Some(page)
             => /\ 1 <= page.current_page
                /\ page.current_page
                     <= TotalPages(page.total,
                                   _get_page_size(terminal_height))]_vars

\* C30: in select_protocol the protocol index satisfies 0 <= index < number
\* of candidates of the chosen host after any sequence of up and down keys;
\* down from the last candidate moves to the first and up from the first to
\* the last (so as many presses of one key as there are candidates return
\* to the starting index), and up and down change neither the state nor the
\* chosen host or credential.
C30_ProtocolIndexWrapsInRange ==
    /\ []((pc = "loop" /\ needs_protocol_selection(command_builder))
          => /\ 0 <= command_builder.protocol_index
             /\ command_builder.protocol_index
                  < Len(get_available_protocols(command_builder)))
    /\ [][(/\ pc = "loop" /\ needs_protocol_selection(command_builder)
           /\ last_input' # last_input
           /\ last_input'.branch = "protocol"
           /\ last_input'.key \in {"up", "down"})
          => LET n == Len(get_available_protocols(command_builder))
                 index == command_builder.protocol_index
             IN /\ command_builder'.protocol_index =
                      IF last_input'.key = "down"
                      THEN (IF index = n - 1 THEN 0 ELSE index + 1)
                      ELSE (IF index = 0 THEN n - 1 ELSE index - 1)
                /\ command_builder'.state = command_builder.state
                /\ command_builder'.selected_host
                     = command_builder.selected_host
                /\ command_builder'.selected_user
                     = command_builder.selected_user]_vars

C30_Witness_DownFromLastToFirst ==
    /\ pc = "loop"
    /\ needs_protocol_selection(command_builder)
    /\ last_input = [key |-> "down", branch |-> "protocol"]
    /\ get_available_protocols(command_builder) = <<"ldap", "smb", "vnc">>
    /\ command_builder.protocol_index = 0

(***************************************************************************)
(* SpecHosts: get_hosts over stores that the scanner fills row by row      *)
(***************************************************************************)
MaxHostRows == 3
MaxQueryPage == 2

QuerySizes == {1, 20}

\* the sources that hold host rows; smb and ssh share the first letter
HostSources == {"smb", "ldap", "ssh"}

HostLiveChoices == { {"smb", "ldap", "ssh"}, {"smb", "ssh"} }

\* raw rows of a hosts table: a missing or blank ip, two hosts, and names
\* and operating systems that are empty or differ between rows
HostRowInputs ==
    { HostRow(ip, ho[1], ho[2]) :
        ip \in {"", "10.0.0.5", "10.0.0.6"},
        ho \in { <<"", "">>, <<"DC01", "">>, <<"WS01", "Win10">>,
                 <<"", "Linux">> } }
    \cup { HostRow(" ", "DC01", "") }

RECURSIVE SumOver(_, _, _)
SumOver(st, names, table_name) ==
    IF names = {} THEN 0
    ELSE LET n == CHOOSE n \in names : TRUE
         IN Len(st[n][table_name]) + SumOver(st, names \ {n}, table_name)

HostsSpecInit ==
    /\ CBInit /\ AppIdle /\ PgIdle /\ RtIdle /\ RegIdle
    /\ stores \in { [p \in ProtocolNames |->
                       IF p \in live THEN LiveStore(<<>>, <<>>) ELSE NoStore] :
                    live \in HostLiveChoices }
    /\ hosts_result = None
    /\ creds_result = None

\* a scan appends a row to the hosts table of a store
Db_InsertHost ==
    /\ SumOver(stores, HostSources, "hosts") < MaxHostRows
    /\ \E p \in HostSources, row \in HostRowInputs :
          /\ stores[p].live
          /\ stores' = [stores EXCEPT ![p].hosts = Append(@, row)]
    /\ hosts_result' = None
    /\ UNCHANGED <<cbVars, appVars, pgVars, rtVars, regVars, creds_result>>

Db_GetHosts ==
    /\ \E page \in 1..MaxQueryPage, size \in QuerySizes :
          LET got == get_hosts(stores, page, size, NoHostFilters)
          IN hosts_result' = Some([page |-> page, size |-> size,
                                   items |-> got.items, total |-> got.total])
    /\ UNCHANGED <<cbVars, appVars, pgVars, rtVars, regVars, stores, creds_result>>

HostsNext ==
    \/ Db_InsertHost
    \/ Db_GetHosts

SpecHosts == HostsSpecInit /\ [][HostsNext]_vars

\* C6: for the raw host rows that share one IP across the live sources the
\* host query returns exactly one record for that IP; its protocol set is
\* the union of the first-letter codes of the sources that contributed a
\* row; its hostname and its OS are each the first non-empty value among
\* the contributing rows in source order; rows with an empty or missing IP
\* contribute to no record.
C6_HostsMergedByIp ==
    (hosts_result # None /\ hosts_result[1].page = 1
       /\ hosts_result[1].size = 20)
    =>
    LET items == hosts_result[1].items
        order == <<"smb", "ldap", "ssh">>
        code == [smb |-> "S", ldap |-> "L", ssh |-> "S"]
        Raw == {x \in (1..3) \X (1..MaxHostRows) :
                   /\ stores[order[x[1]]].live
                   /\ x[2] <= Len(stores[order[x[1]]].hosts)}
        Row(x) == stores[order[x[1]]].hosts[x[2]]
        Before(x, y) == x[1] < y[1] \/ (x[1] = y[1] /\ x[2] < y[2])
        HasIp(x) == Row(x).ip \notin {"", " "}
        Group(ip) == {x \in Raw : Row(x).ip = ip}
        First(S) == CHOOSE x \in S : \A y \in S : y = x \/ Before(x, y)
        Named(ip) == {x \in Group(ip) : Row(x).hostname # ""}
        WithOs(ip) == {x \in Group(ip) : Row(x).os # ""}
    IN /\ \A x \in Raw : HasIp(x) =>
             Cardinality({k \in DOMAIN items : items[k].ip = Row(x).ip}) = 1
       /\ \A k \in DOMAIN items :
             /\ \E x \in Raw : HasIp(x) /\ Row(x).ip = items[k].ip
             /\ {items[k].protocols[i] : i \in DOMAIN items[k].protocols}
                  = {code[order[x[1]]] : x \in Group(items[k].ip)}
             /\ Len(items[k].protocols)
                  = Cardinality({code[order[x[1]]] : x \in Group(items[k].ip)})
             /\ items[k].hostname =
                  IF Named(items[k].ip) = {} THEN ""
                  ELSE Row(First(Named(items[k].ip))).hostname
             /\ items[k].os =
                  IF WithOs(items[k].ip) = {} THEN ""
                  ELSE Row(First(WithOs(items[k].ip))).os
       /\ hosts_result[1].total = Len(items)

C6_Witness_ThreeSourcesOneIp ==
    /\ hosts_result # None
    /\ stores["smb"].hosts # <<>> /\ stores["smb"].hosts[1].ip = " "
    /\ hosts_result[1].total = 1
    /\ \E k \in DOMAIN hosts_result[1].items :
          /\ hosts_result[1].items[k].ip = "10.0.0.5"
          /\ hosts_result[1].items[k].protocols = <<"L", "S">>
          /\ hosts_result[1].items[k].hostname = "DC01"
          /\ hosts_result[1].items[k].os = "Linux"

(***************************************************************************)
(* SpecCreds: get_credentials over stores filled row by row                *)
(***************************************************************************)
MaxCredRows == 3

CredSources == {"smb", "ldap", "winrm"}

CredLiveChoices == { {"smb", "ldap", "winrm"}, {"smb", "winrm"} }

CredFilters == {"none", "hash"}

\* raw rows of a users table: one credential in the spellings that differ
\* in letter case only, and rows that differ from it in one field
CredRowInputs ==
    { UserRow("CORP", "alice", "s3cret", "hash"),
      UserRow("corp", "alice", "s3cret", "hash"),
      UserRow("CORP", "Alice", "s3cret", "hash"),
      UserRow("CORP", "alice", "s3cret", "HASH"),
      UserRow("corp", "Alice", "s3cret", "HASH"),
      UserRow("CORP", "alice", "s3cret", "plaintext"),
      UserRow("CORP", "bob", "s3cret", "hash"),
      UserRow("", "alice", "s3cret", "hash"),
      \* the credential again, as dumped from host 1
      [UserRow("CORP", "alice", "s3cret", "hash")
         EXCEPT !.pillaged_from_hostid = 1] }

CredsSpecInit ==
    /\ CBInit /\ AppIdle /\ PgIdle /\ RtIdle /\ RegIdle
    /\ stores \in { [p \in ProtocolNames |->
                       IF p \in live THEN LiveStore(<<>>, <<>>) ELSE NoStore] :
                    live \in CredLiveChoices }
    /\ hosts_result = None
    /\ creds_result = None

\* a scan appends a row to the users table of a store
Db_InsertCred ==
    /\ SumOver(stores, CredSources, "users") < MaxCredRows
    /\ \E p \in CredSources, row \in CredRowInputs :
          /\ stores[p].live
          /\ stores' = [stores EXCEPT ![p].users = Append(@, row)]
    /\ creds_result' = None
    /\ UNCHANGED <<cbVars, appVars, pgVars, rtVars, regVars, hosts_result>>

Db_GetCredentials ==
    /\ \E page \in 1..MaxQueryPage, size \in QuerySizes, f \in CredFilters :
          LET got == get_credentials(stores, page, size, f)
          IN creds_result' = Some([page |-> page, size |-> size,
                                   filters |-> f, items |-> got.items,
                                   total |-> got.total])
    /\ UNCHANGED <<cbVars, appVars, pgVars, rtVars, regVars, stores, hosts_result>>

CredsNext ==
    \/ Db_InsertCred
    \/ Db_GetCredentials

SpecCreds == CredsSpecInit /\ [][CredsNext]_vars

\* C7: raw credential rows whose domain, username and credential type are
\* equal up to letter case merge into exactly one record; its reuse_count is
\* the number of raw rows of the group and its protocol set the union of
\* the protocols of those rows; rows that differ in one of the three fields
\* (ignoring case) are never merged.
C7_CredentialsDeduplicated ==
    (creds_result # None /\ creds_result[1].page = 1
       /\ creds_result[1].size = 20 /\ creds_result[1].filters = "none")
    =>
    LET items == creds_result[1].items
        order == <<"smb", "ldap", "winrm">>
        Raw == {x \in (1..3) \X (1..MaxCredRows) :
                   /\ stores[order[x[1]]].live
                   /\ x[2] <= Len(stores[order[x[1]]].users)}
        Row(x) == stores[order[x[1]]].users[x[2]]
        Same(a, b) == \/ a = b
                      \/ {a, b} \in { {"CORP", "corp"}, {"alice", "Alice"},
                                      {"hash", "HASH"} }
        SameKey(c, d) == /\ Same(c.domain, d.domain)
                         /\ Same(c.username, d.username)
                         /\ Same(c.credtype, d.credtype)
        Joined(S) ==
            CASE S = {"smb"} -> "SMB"
              [] S = {"ldap"} -> "LDAP"
              [] S = {"winrm"} -> "WINRM"
              [] S = {"smb", "ldap"} -> "LDAP, SMB"
              [] S = {"smb", "winrm"} -> "SMB, WINRM"
              [] S = {"ldap", "winrm"} -> "LDAP, WINRM"
              [] S = {"smb", "ldap", "winrm"} -> "LDAP, SMB, WINRM"
        Group(x) == {y \in Raw : SameKey(Row(x), Row(y))}
        Matches(x) == {k \in DOMAIN items : SameKey(items[k], Row(x))}
    IN /\ \A x \in Raw :
             /\ Cardinality(Matches(x)) = 1
             /\ \A k \in Matches(x) :
                   /\ items[k].reuse_count = Cardinality(Group(x))
                   /\ items[k].protocols
                        = Joined({order[y[1]] : y \in Group(x)})
       /\ \A k \in DOMAIN items : \E x \in Raw : SameKey(items[k], Row(x))
       /\ creds_result[1].total = Len(items)

C7_Witness_TwoRowsOneRecord ==
    /\ creds_result # None
    /\ creds_result[1].total = 2
    /\ \E k \in DOMAIN creds_result[1].items :
          /\ creds_result[1].items[k].reuse_count = 2
          /\ creds_result[1].items[k].protocols = "LDAP, SMB"
          /\ creds_result[1].items[k].username = "alice"
    /\ stores["ldap"].users # <<>>
    /\ stores["ldap"].users[1].username = "Alice"

\* C27: a deduplicated credential has provenance 'dumped' if any raw row of
\* its group carries a pillage-origin host reference and 'used' only if no
\* row of the group carries one, in whatever order the rows were fetched.
C27_DumpedIfAnyRowPillaged ==
    (creds_result # None /\ creds_result[1].page = 1
       /\ creds_result[1].size = 20 /\ creds_result[1].filters = "none")
    => \A k \in DOMAIN creds_result[1].items :
          LET item == creds_result[1].items[k]
              group == UNION { {stores[p].users[j] :
                                  j \in {j \in DOMAIN stores[p].users :
                                           DedupKey(stores[p].users[j])
                                             = DedupKey(item)}} :
                               p \in {p \in ProtocolNames : stores[p].live} }
          IN item.source = "dumped"
               <=> \E row \in group : row.pillaged_from_hostid # 0

(***************************************************************************)
(* SpecPag: a Paginator over a data source, call by call                   *)
(***************************************************************************)
MaxTotal == 45
MaxRequest == 5

PageSizes == {7, 20}

DataTotals == {0, 1, 7, 20, 21, 40, MaxTotal}

RequestedPages == -1..MaxRequest

PgSpecInit ==
    /\ CBInit /\ AppIdle /\ RtIdle /\ DbIdle /\ RegIdle
    /\ paginator \in {Paginator(page_size) : page_size \in PageSizes}
    /\ data_total \in DataTotals
    /\ page_result = NoCall

PgFrame == UNCHANGED <<cbVars, appVars, rtVars, dbVars, regVars, data_total>>

\* a call that returns a PaginationResult
Pg_Result(op, arg, r) ==
    /\ paginator' = r.pg
    /\ page_result' = [op |-> op, arg |-> arg, key |-> "",
                       ret |-> Some(r.result)]
    /\ PgFrame

\* a call that returns None
Pg_Done(op, arg, key, pg) ==
    /\ paginator' = pg
    /\ page_result' = [op |-> op, arg |-> arg, key |-> key, ret |-> None]
    /\ PgFrame

Pg_GetPage == \E n \in RequestedPages :
    Pg_Result("get_page", n, get_page(paginator, data_total, Some(n)))

Pg_GetCurrentPage ==
    Pg_Result("get_page()", 0, get_page(paginator, data_total, None))

Pg_GotoPage == \E n \in RequestedPages :
    Pg_Result("goto_page", n, goto_page(paginator, data_total, n))

Pg_NextPage == Pg_Result("next_page", 0, next_page(paginator, data_total))

Pg_PrevPage == Pg_Result("prev_page", 0, prev_page(paginator, data_total))

Pg_FirstPage == Pg_Result("first_page", 0, first_page(paginator, data_total))

Pg_LastPage == Pg_Result("last_page", 0, last_page(paginator, data_total))

Pg_SetFilter == \E key \in FilterKeys, value \in FilterValues :
    Pg_Done("set_filter", value, key, set_filter(paginator, key, value))

Pg_ClearFilter == \E key \in FilterKeys :
    Pg_Done("clear_filter", 0, key, clear_filter(paginator, key))

Pg_ClearFilters == Pg_Done("clear_filters", 0, "", clear_filters(paginator))

Pg_SetSort == \E descending \in BOOLEAN :
    Pg_Done("set_sort", 0, "name", set_sort(paginator, "name", descending))

\* the data behind the data source grows or shrinks between calls
Pg_DataChanged ==
    /\ \E total \in DataTotals \ {data_total} : data_total' = total
    /\ UNCHANGED <<cbVars, appVars, rtVars, dbVars, regVars, paginator, page_result>>

PgNext ==
    \/ Pg_GetPage
    \/ Pg_GetCurrentPage
    \/ Pg_GotoPage
    \/ Pg_NextPage
    \/ Pg_PrevPage
    \/ Pg_FirstPage
    \/ Pg_LastPage
    \/ Pg_SetFilter
    \/ Pg_ClearFilter
    \/ Pg_ClearFilters
    \/ Pg_SetSort
    \/ Pg_DataChanged

SpecPag == PgSpecInit /\ [][PgNext]_vars

\* C8: for every total item count, page size and requested page n (n <= 0
\* and n past the last page included) get_page(n) and goto_page(n) report
\* total_pages = max(1, ceil(total / page_size)) and a page clamped into
\* 1..total_pages, and leave the paginator's current page at that value;
\* 45 items with page size 20 give 3 pages, a request for page 5 yields
\* page 3 and a request for page 0 yields page 1.
C8_PageClamped ==
    page_result.op \in {"get_page", "goto_page"}
    =>
    LET r == page_result.ret[1]
        n == page_result.arg
        tp == r.total_pages
    IN /\ tp >= 1
       /\ tp * r.page_size >= r.total_items
       /\ tp = 1 \/ (tp - 1) * r.page_size < r.total_items
       /\ r.page = IF n < 1 THEN 1 ELSE IF n > tp THEN tp ELSE n
       /\ paginator.current_page = r.page
       /\ (r.total_items = 45 /\ r.page_size = 20) =>
             /\ tp = 3
             /\ n = 5 => r.page = 3
             /\ n = 0 => r.page = 1

C8_Witness_Page5Of45 ==
    /\ page_result.op = "get_page"
    /\ page_result.arg = 5
    /\ page_result.ret # None
    /\ page_result.ret[1].total_items = 45
    /\ page_result.ret[1].page_size = 20
    /\ page_result.ret[1].page = 3
    /\ paginator.current_page = 3

\* C9 as stated: from any paginator state each of set_filter(key, value),
\* clear_filter(key) and clear_filters() leaves the current page equal to 1,
\* for every key, a key that is not in the filter set included.
C9_FilterChangeLeavesPageOne ==
    page_result.op \in {"set_filter", "clear_filter", "clear_filters"}
    => paginator.current_page = 1

\* C9 as the code has it: set_filter(key, value) and clear_filters() leave
\* the current page equal to 1; clear_filter(key) leaves it equal to 1 when
\* key is in the filter set, and leaves the current page and the filter set
\* as they were when it is not.
C9_FilterChangeResetsPageIfKeyPresent ==
    [][data_total' = data_total =>
         /\ page_result'.op \in {"set_filter", "clear_filters"} =>
               paginator'.current_page = 1
         /\ page_result'.op = "clear_filter" =>
               IF page_result'.key \in DOMAIN paginator.filters
               THEN /\ paginator'.current_page = 1
                    /\ page_result'.key \notin DOMAIN paginator'.filters
               ELSE /\ paginator'.current_page = paginator.current_page
                    /\ paginator'.filters = paginator.filters]_vars

C9_Witness_AbsentKeyKeepsPage ==
    /\ page_result.op = "clear_filter"
    /\ page_result.key \notin DOMAIN paginator.filters
    /\ paginator.current_page = 3

\* C23: the items of a pagination result are the items of the page the
\* result reports: after get_page(n) or goto_page(n), n past the last page
\* included, result.items is the window the data source returns for
\* (result.page, page_size, filters).
C23_ItemsOfReportedPage ==
    [][(/\ page_result' # page_result
        /\ page_result'.op \in {"get_page", "goto_page"})
       => LET r == page_result'.ret[1]
          IN r.items = data_source(data_total', r.page, r.page_size,
                                   paginator'.filters).items]_vars

(***************************************************************************)
(* SpecCols: get_visible_columns of a ResponsiveTable as the terminal is   *)
(* resized                                                                 *)
(***************************************************************************)
MaxCols == 3

\* nominal column widths; 0 stands for None ("auto")
ColumnWidths == {0, 15, 100}

TerminalWidths == {70, 80, 120, 150, 160}

ColumnInputs ==
    [priority : PRIORITY_CRITICAL..PRIORITY_LOW, width : ColumnWidths]

ColsSpecInit ==
    /\ CBInit /\ AppIdle /\ PgIdle /\ DbIdle /\ RegIdle
    /\ columns \in UNION {[1..n -> ColumnInputs] : n \in 0..MaxCols}
    /\ terminal_width \in TerminalWidths
    /\ visible = None

Rt_Resize ==
    /\ \E width \in TerminalWidths \ {terminal_width} : terminal_width' = width
    /\ visible' = None
    /\ UNCHANGED <<cbVars, appVars, pgVars, dbVars, regVars, columns>>

Rt_GetVisibleColumns ==
    /\ visible' = Some([width |-> terminal_width,
                        cols |-> get_visible_columns(columns, terminal_width)])
    /\ UNCHANGED <<cbVars, appVars, pgVars, dbVars, regVars, columns, terminal_width>>

ColsNext ==
    \/ Rt_Resize
    \/ Rt_GetVisibleColumns

SpecCols == ColsSpecInit /\ [][ColsNext]_vars

\* C10 as stated: at terminal width 150 the columns of every priority tier
\* (critical, high, medium and low) are admitted, and columns are removed
\* only if the summed width of the admitted columns plus one separator per
\* column exceeds 150 - 6.
C10_AllTiersAdmittedAt150 ==
    (visible # None /\ visible[1].width = 150)
    =>
    LET W(i) == IF columns[i].width = 0 THEN 10 ELSE columns[i].width
        Need[n \in 0..Len(columns)] == IF n = 0 THEN 0 ELSE Need[n - 1] + W(n) + 1
    IN Need[Len(columns)] <= 150 - 6 => visible[1].cols = columns

\* C10 as the code has it: at terminal width 150 the critical, high and
\* medium columns are admitted and the low ones are not (those need a width
\* of 160); if the summed width of the admitted columns plus one separator
\* per column exceeds 150 - 6, the admitted columns are put in priority
\* order (ties in their original order) and the last one is dropped, one at
\* a time, until the rest fits or one column remains.
C10_ThreeTiersAdmittedAt150 ==
    (visible # None /\ visible[1].width = 150)
    =>
    LET v == visible[1].cols
        A == {i \in DOMAIN columns : columns[i].priority <= 3}
        W(i) == IF columns[i].width = 0 THEN 10 ELSE columns[i].width
        Pre(j, i) == \/ columns[j].priority < columns[i].priority
                     \/ columns[j].priority = columns[i].priority /\ j < i
        Rank(i) == Cardinality({j \in A : Pre(j, i)}) + 1
        Need1[n \in 0..Len(columns)] ==
            IF n = 0 THEN 0
            ELSE Need1[n - 1] + (IF n \in A THEN W(n) + 1 ELSE 0)
        NeedTop(m) == LET T == {i \in A : Rank(i) <= m}
                          N[n \in 0..Len(columns)] ==
                              IF n = 0 THEN 0
                              ELSE N[n - 1] + (IF n \in T THEN W(n) + 1 ELSE 0)
                      IN N[Len(columns)]
        Fits == {m \in 1..Cardinality(A) : NeedTop(m) <= 150 - 6}
        kept == IF Fits = {} THEN 1
                ELSE CHOOSE m \in Fits : \A k \in Fits : k <= m
    IN IF Need1[Len(columns)] <= 150 - 6 \/ Cardinality(A) <= 1
       THEN v = SelectSeq(columns, LAMBDA c : c.priority <= 3)
       ELSE /\ Len(v) = kept
            /\ \A k \in 1..kept :
                  \E i \in A : Rank(i) = k /\ v[k] = columns[i]

C10_Witness_LowHiddenAndOneDropped ==
    /\ visible # None
    /\ visible[1].width = 150
    /\ Len(columns) = 3
    /\ columns[1].priority = PRIORITY_LOW
    /\ columns[2] = [priority |-> PRIORITY_MEDIUM, width |-> 100]
    /\ columns[3] = [priority |-> PRIORITY_CRITICAL, width |-> 100]
    /\ visible[1].cols = <<columns[3]>>

\* C11: the columns get_visible_columns admits before it drops any for
\* overflow are fixed by the width breakpoints alone: width < 80 admits only
\* critical columns, 80 <= width < 120 critical and high, 120 <= width < 160
\* critical, high and medium, width >= 160 all four tiers; at width 70 no
\* high, medium or low column is ever visible.
C11_TierAdmittedByBreakpoints ==
    visible # None
    =>
    LET w == visible[1].width
        v == visible[1].cols
        tier == IF w < 80 THEN 1 ELSE IF w < 120 THEN 2
                ELSE IF w < 160 THEN 3 ELSE 4
        admitted == SelectSeq(columns, LAMBDA c : c.priority <= tier)
        Wd(c) == IF c.width = 0 THEN 10 ELSE c.width
        Need[n \in 0..Len(admitted)] ==
            IF n = 0 THEN 0 ELSE Need[n - 1] + Wd(admitted[n]) + 1
    IN /\ \A k \in DOMAIN v : v[k].priority <= tier
       /\ Len(v) <= Len(admitted)
       /\ (Need[Len(admitted)] <= w - 6 \/ Len(admitted) <= 1) => v = admitted
       /\ w = 70 => \A k \in DOMAIN v : v[k].priority = 1

C11_Witness_OnlyCriticalAt70 ==
    /\ visible # None
    /\ visible[1].width = 70
    /\ Len(columns) = 3
    /\ columns[1].priority = PRIORITY_HIGH
    /\ columns[2].priority = PRIORITY_CRITICAL
    /\ columns[3].priority = PRIORITY_LOW
    /\ visible[1].cols = <<columns[2]>>

\* C24: after tier selection get_visible_columns returns columns whose
\* summed widths (auto counting as 10) plus one separator each is at most
\* width - 6, or else a single column; the columns returned are those left
\* by removing, one at a time, the lowest-priority remaining column (the
\* later-declared one among equals) until the rest fits or one remains; no
\* column is dropped while a column of strictly lower priority stays
\* visible, and a non-empty admitted set never becomes empty.
C24_OverflowDropsLowestPriorityLast ==
    visible # None
    =>
    LET w == visible[1].width
        v == visible[1].cols
        Admitted == {i \in DOMAIN columns :
                        columns[i].priority <= MaxPriority(w)}
        Wd(i) == IF columns[i].width = 0 THEN 10 ELSE columns[i].width
        Need(S) == LET N[n \in 0..Len(columns)] ==
                           IF n = 0 THEN 0
                           ELSE N[n - 1] + (IF n \in S THEN Wd(n) + 1 ELSE 0)
                   IN N[Len(columns)]
        Lowest(S) == CHOOSE i \in S :
                        \A j \in S :
                           \/ columns[j].priority < columns[i].priority
                           \/ /\ columns[j].priority = columns[i].priority
                              /\ j <= i
        Left[k \in 0..Len(columns)] ==
            IF k = 0 THEN Admitted
            ELSE IF Need(Left[k - 1]) > w - 6 /\ Cardinality(Left[k - 1]) > 1
                 THEN Left[k - 1] \ {Lowest(Left[k - 1])}
                 ELSE Left[k - 1]
        Final == Left[Len(columns)]
    IN /\ TotalWidth(v) <= w - 6 \/ Len(v) = 1
       /\ Len(v) = Cardinality(Final)
       /\ \E f \in [DOMAIN v -> Final] :
             /\ \A k, m \in DOMAIN v : f[k] = f[m] => k = m
             /\ \A k \in DOMAIN v : v[k] = columns[f[k]]
       /\ \A i \in Admitted \ Final :
             \A k \in DOMAIN v : v[k].priority <= columns[i].priority
       /\ Admitted # {} => v # <<>>

C24_Witness_LaterOfEqualPriorityDropped ==
    /\ visible # None
    /\ visible[1].width = 120
    /\ columns = << [priority |-> PRIORITY_HIGH, width |-> 0],
                    [priority |-> PRIORITY_HIGH, width |-> 15],
                    [priority |-> PRIORITY_HIGH, width |-> 100] >>
    /\ visible[1].cols = <<columns[1], columns[2]>>

\* C25: get_visible_columns returns the visible columns in their original
\* declaration order at every width and for every column list, the widths
\* at which overflow dropping removes columns included.
C25_DeclarationOrderKept ==
    visible # None
    => \E f \in [DOMAIN visible[1].cols -> DOMAIN columns] :
          /\ \A k, m \in DOMAIN f : k < m => f[k] < f[m]
          /\ \A k \in DOMAIN f : visible[1].cols[k] = columns[f[k]]

(***************************************************************************)
(* SpecReg: the registry's raw queries, counts and deltas while scans add   *)
(* rows to the stores and a writer locks and unlocks the smb file           *)
(***************************************************************************)
MaxRegRows == 2

RegTables == AllTables \cup {"groups", "dpapi_secrets", "conf_checks_results"}

RegSources == {"smb", "ldap"}

RegLiveChoices == {{"smb"}, {"smb", "ldap"}, {"ldap"}}

\* the tables a workspace file of each protocol holds
RegStore(p) ==
    [NoStore EXCEPT !.live = TRUE,
                    !.tables = IF p = "smb" THEN RegTables
                               ELSE {"hosts", "users", "groups"}]

\* the rows a scan can add to a table
RegRowInputs(table_name) ==
    CASE table_name = "hosts" ->
           {HostRow("10.0.0.5", "DC01", ""), HostRow("10.0.0.6", "", "")}
      [] table_name = "users" ->
           {UserRow("CORP", "alice", "hunter2", "plaintext")}
      [] table_name = "admin_relations" ->
           {[userid |-> 1, hostid |-> h] : h \in 1..2}
      [] OTHER -> {[id |-> 1]}

\* the calls of _execute_query that are tried
QueryProtocols == {"smb", "ldap", "telnet"}

QueryInputs ==
    { Select("hosts"), Select("users"), Select("nosuchtable"),
      [Select("hosts") EXCEPT !.column = "nosuch"],
      [Select("hosts") EXCEPT !.malformed = TRUE] }

RegSpecInit ==
    /\ CBInit /\ AppIdle /\ PgIdle /\ RtIdle /\ RegIdle
    /\ stores \in { [p \in ProtocolNames |->
                       IF p \in live THEN RegStore(p) ELSE NoStore] :
                    live \in RegLiveChoices }
    /\ hosts_result = None
    /\ creds_result = None

RegFrame ==
    UNCHANGED <<cbVars, appVars, pgVars, rtVars, hosts_result, creds_result,
                analytics_result>>

RegRowTotal(st) ==
    LET names == <<"smb", "ldap">>
        PerStore(p) ==
            Len(st[p].hosts) + Len(st[p].users) + Len(st[p].shares)
            + Len(st[p].admin_relations) + Len(st[p].groups)
            + Len(st[p].dpapi_secrets) + Len(st[p].conf_checks_results)
    IN PerStore("smb") + PerStore("ldap")

\* a scan appends a row to a table of a store
Reg_Insert ==
    /\ RegRowTotal(stores) < MaxRegRows
    /\ \E p \in RegSources, table_name \in RegTables :
          /\ stores[p].live
          /\ table_name \in stores[p].tables
          /\ \E row \in RegRowInputs(table_name) :
                stores' = [stores EXCEPT ![p][table_name] = Append(@, row)]
    /\ query_result' = None
    /\ UNCHANGED <<_last_counts, diff_result>>
    /\ RegFrame

\* another process takes or releases the write lock of the smb file
Reg_Lock ==
    /\ stores["smb"].live
    /\ stores' = [stores EXCEPT !["smb"].locked = ~@]
    /\ query_result' = None
    /\ UNCHANGED <<_last_counts, diff_result>>
    /\ RegFrame

Reg_ExecuteQuery ==
    /\ \E protocol \in QueryProtocols, query \in QueryInputs :
          LET got == QueryOutcome(stores, protocol, query)
          IN query_result' = Some([protocol |-> protocol, query |-> query,
                                   rows |-> got.rows, raised |-> got.raised])
    /\ UNCHANGED <<stores, _last_counts, diff_result>>
    /\ RegFrame

Reg_GetDiffCounts ==
    /\ LET got == get_diff_counts(stores, _last_counts)
       IN /\ diff_result' = Some(got.diff)
          /\ _last_counts' = got.last_counts
    /\ UNCHANGED <<stores, query_result>>
    /\ RegFrame

RegNext ==
    \/ Reg_Insert
    \/ Reg_Lock
    \/ Reg_ExecuteQuery
    \/ Reg_GetDiffCounts

SpecReg == RegSpecInit /\ [][RegNext]_vars

\* C12: every diff request returns, per category, the current count minus
\* the count captured by the preceding diff request (0 in every category when
\* there was none) and makes the current counts the new baseline; so a diff
\* request over data unchanged since the previous one returns 0 everywhere.
C12_DiffAgainstPrecedingRequest ==
    [][ (diff_result' # diff_result \/ _last_counts' # _last_counts)
        =>
        LET current == get_counts(stores)
        IN /\ stores' = stores
           /\ diff_result' # None
           /\ DOMAIN diff_result'[1] = DOMAIN current
           /\ \A key \in DOMAIN current :
                 diff_result'[1][key] =
                    IF _last_counts = None THEN 0
                    ELSE current[key] - _last_counts[1][key]
           /\ _last_counts' = Some(current)
           /\ (_last_counts = Some(current)
               => \A key \in DOMAIN current : diff_result'[1][key] = 0) ]_vars

C12_Witness_SecondHostReportedOnce ==
    /\ diff_result # None
    /\ _last_counts # None
    /\ diff_result[1].hosts = 1
    /\ _last_counts[1].hosts = 2
    /\ get_counts(stores).hosts = 2

\* the calls of _execute_query that the claim names as failing
C13_Fails(st, r) ==
    \/ r.protocol \notin ProtocolNames
    \/ ~st[r.protocol].live
    \/ st[r.protocol].locked
    \/ r.query.table \notin st[r.protocol].tables
    \/ r.query.column = "nosuch"
    \/ r.query.malformed

\* C13: _execute_query never lets an error escape; for a protocol that is
\* not live, a missing table or column, a locked store or a malformed
\* statement it returns the empty list, and the call leaves the stores and
\* the rest of the registry's state as they were.
C13_QueryNeverPropagates ==
    /\ [](query_result # None
          => /\ query_result[1].raised = "none"
             /\ C13_Fails(stores, query_result[1])
                => query_result[1].rows = <<>>)
    /\ [][query_result' # None /\ query_result' # query_result
          => UNCHANGED <<stores, _last_counts, diff_result, hosts_result,
                         creds_result, analytics_result>>]_vars

C13_Witness_LockedStoreGivesNoRows ==
    /\ query_result # None
    /\ query_result[1].protocol = "smb"
    /\ query_result[1].query = Select("hosts")
    /\ stores["smb"].locked
    /\ Len(stores["smb"].hosts) = 2
    /\ query_result[1].rows = <<>>

(***************************************************************************)
(* SpecAnalytics: the host query, the credential query, the analytics and   *)
(* the deltas over workspaces that stay as they are                         *)
(***************************************************************************)
Secrets ==
    <<"Winter2024", "Summer2024", "Passw0rd", "letmein", "admin", "changeme">>

SecretOwners == <<"alice", "bob", "carol", "dave", "erin", "frank">>

\* a 64 character NT-hash-like blob
LongSecret == "5f4dcc3b5aa765d61d8327deb882cf995f4dcc3b5aa765d61d8327deb882cf99"

\* how many rows hold each of the secrets
CountPatterns ==
    { <<2, 2, 2, 2, 2, 2>>, <<2, 3, 2, 3, 2, 3>>, <<1, 2, 3, 3, 2, 2>>,
      <<3, 2, 2, 2, 2, 2>> }

\* the rows of the first n secrets whose occurrence number is in js
RECURSIVE SecretRows(_, _, _, _)
SecretRows(k, n, pattern, js) ==
    IF k > n THEN <<>>
    ELSE LET row == UserRow("CORP", SecretOwners[k], Secrets[k], "plaintext")
             Rows(j) == IF j \in js /\ j <= pattern[k] THEN <<row>> ELSE <<>>
         IN Rows(1) \o Rows(3) \o Rows(2) \o SecretRows(k + 1, n, pattern, js)

AnHostIps == <<"10.0.0.5", "10.0.0.6", "10.0.0.7">>

AnLdapIps == <<"10.0.0.5", "10.0.0.9">>

TenHostIps ==
    <<"10.0.1.1", "10.0.1.2", "10.0.1.3", "10.0.1.4", "10.0.1.5", "10.0.1.6",
      "10.0.1.7", "10.0.1.8", "10.0.1.9", "10.0.1.10">>

AdminChoices ==
    { <<>>,
      << [userid |-> 1, hostid |-> 1] >>,
      << [userid |-> 1, hostid |-> 1], [userid |-> 2, hostid |-> 1] >>,
      << [userid |-> 1, hostid |-> 1], [userid |-> 1, hostid |-> 2] >>,
      << [userid |-> 1, hostid |-> 1], [userid |-> 1, hostid |-> 2],
         [userid |-> 2, hostid |-> 3] >> }

HostRows(ips, n) == [i \in 1..n |-> HostRow(ips[i], "", "")]

\* a workspace with an smb and an ldap store
AnStores(smb_hosts, ldap_hosts, admin, smb_users, ldap_users) ==
    [p \in ProtocolNames |->
        CASE p = "smb" ->
               [LiveStore(smb_hosts, smb_users)
                  EXCEPT !.admin_relations = admin]
          [] p = "ldap" -> LiveStore(ldap_hosts, ldap_users)
          [] OTHER -> NoStore]

AdminChoicesFor(hs) ==
    {a \in AdminChoices : \A k \in DOMAIN a : a[k].hostid <= hs}

HostScenarios ==
    UNION { { AnStores(HostRows(AnHostIps, hs), HostRows(AnLdapIps, hl), admin,
                       SecretRows(1, 2, <<2, 2, 2, 2, 2, 2>>, {1}),
                       SecretRows(1, 2, <<2, 2, 2, 2, 2, 2>>, {2})) :
                hl \in 0..2, admin \in AdminChoicesFor(hs) } : hs \in 0..3 }
    \cup
    { AnStores(HostRows(TenHostIps, 10), <<>>,
               << [userid |-> 1, hostid |-> 1], [userid |-> 1, hostid |-> 2],
                  [userid |-> 2, hostid |-> 3] >>, <<>>, <<>>) }

CredScenarios ==
    { AnStores(HostRows(AnHostIps, 1), <<>>,
               << [userid |-> 1, hostid |-> 1] >>,
               (IF long THEN <<UserRow("CORP", "svc", LongSecret, "hash")>>
                ELSE <<>>)
               \o (IF empty
                   THEN << UserRow("CORP", "guest", "", "plaintext"),
                           UserRow("CORP", "anon", "", "plaintext") >>
                   ELSE <<>>)
               \o SecretRows(1, n, pattern, {1, 3}),
               (IF long THEN <<UserRow("CORP", "svc", LongSecret, "Hash")>>
                ELSE <<>>)
               \o SecretRows(1, n, pattern, {2})) :
        n \in 0..Len(Secrets), pattern \in CountPatterns,
        long \in BOOLEAN, empty \in BOOLEAN }

AnSpecInit ==
    /\ CBInit /\ AppIdle /\ PgIdle /\ RtIdle /\ RegIdle
    /\ stores \in HostScenarios \cup CredScenarios
    /\ hosts_result = None
    /\ creds_result = None

An_GetAnalytics ==
    /\ analytics_result' = Some(get_analytics(stores))
    /\ UNCHANGED <<cbVars, appVars, pgVars, rtVars, dbVars, query_result,
                   _last_counts, diff_result>>

AnNext ==
    \/ Db_GetHosts
    \/ Db_GetCredentials
    \/ An_GetAnalytics
    \/ Reg_GetDiffCounts

SpecAnalytics == AnSpecInit /\ [][AnNext]_vars

\* the distinct IPs of the hosts tables of all live stores
C16_DistinctHostIps(st) ==
    LET rows == CollectRows(st, engines(st), "hosts")
    IN {rows[k].row.ip : k \in DOMAIN rows}

\* C16: pwn_rate is 100 x (distinct hosts with an admin relation) / (total
\* hosts), every host (distinct IP) counted once however many stores report
\* it, and 0 when there are no hosts; 10 hosts of which 3 have an admin
\* relation give 30.0.
C16_PwnRateOverDistinctHosts ==
    analytics_result # None
    =>
    LET total == Cardinality(C16_DistinctHostIps(stores))
        pwned == Cardinality(IpsNamedBy(stores, "admin_relations"))
    IN analytics_result[1].pwn_rate =
          IF total = 0 THEN 0 ELSE (10000 * pwned) \div total

\* the secrets of all raw credential rows, and the number of rows of each
C17_Count(st, pwd) ==
    LET rows == CollectRows(st, engines(st), "users")
    IN Cardinality({k \in DOMAIN rows : rows[k].row.password = pwd})

C17_Qualifying(st) ==
    LET rows == CollectRows(st, engines(st), "users")
    IN {pwd \in {rows[k].row.password : k \in DOMAIN rows} :
          pwd # "" /\ Len(pwd) < 50 /\ C17_Count(st, pwd) >= 2}

\* C17: password_spraying_candidates lists only non-empty secrets shorter
\* than 50 characters that occur in at least 2 raw credential rows, each once
\* and with its exact number of rows; the list is sorted by count, highest
\* first, holds at most 5 entries (all qualifying secrets when there are at
\* most 5), and every qualifying secret left out has a count no higher than
\* any listed one.
C17_SprayCandidates ==
    analytics_result # None
    =>
    LET cands == analytics_result[1].password_spraying_candidates
        qualifying == C17_Qualifying(stores)
        listed == {cands[k].pwd : k \in DOMAIN cands}
    IN /\ \A k \in DOMAIN cands :
             /\ cands[k].pwd \in qualifying
             /\ cands[k].cnt = C17_Count(stores, cands[k].pwd)
       /\ \A k, m \in DOMAIN cands : k < m =>
             /\ cands[k].cnt >= cands[m].cnt
             /\ cands[k].pwd # cands[m].pwd
       /\ Len(cands) <= 5
       /\ Cardinality(qualifying) <= 5 => listed = qualifying
       /\ Cardinality(qualifying) > 5 => Len(cands) = 5
       /\ \A pwd \in qualifying \ listed : \A k \in DOMAIN cands :
             cands[k].cnt >= C17_Count(stores, pwd)

C17_Witness_ThreeRowSecretFirstOneLeftOut ==
    /\ analytics_result # None
    /\ Cardinality(C17_Qualifying(stores)) = 6
    /\ LET cands == analytics_result[1].password_spraying_candidates
       IN /\ Len(cands) = 5
          /\ cands[1] = [pwd |-> "Summer2024", cnt |-> 3]
          /\ cands[4].cnt = 2
    /\ \E k \in DOMAIN stores["smb"].users :
          stores["smb"].users[k].password = LongSecret
    /\ \E k \in DOMAIN stores["smb"].users :
          stores["smb"].users[k].password = ""

MaxMergeRows == 3

\* the sources that receive host rows; smb and ssh share the first letter
MergeSources == {"smb", "ssh"}

\* smb.db is part of the workspace or it is not
MergeLiveChoices == { {"smb", "ssh"}, {"ssh"} }

\* raw host rows: two addresses, each seen with the domain-controller flag
\* and a signing value or without either
MergeHostRows ==
    { [HostRow(ip, "", "") EXCEPT !.dc = flags[1], !.signing = flags[2]] :
        ip \in {"10.0.0.5", "10.0.0.6"},
        flags \in { <<FALSE, NoneStr>>, <<TRUE, "True">> } }

RelationTables == {"shares", "admin_relations"}

HostFilterChoices == [has_shares : BOOLEAN, has_creds : BOOLEAN]

MergeSpecInit ==
    /\ CBInit /\ AppIdle /\ PgIdle /\ RtIdle /\ RegIdle
    /\ stores \in { [p \in ProtocolNames |->
                       IF p \in live THEN LiveStore(<<>>, <<>>) ELSE NoStore] :
                    live \in MergeLiveChoices }
    /\ hosts_result = None
    /\ creds_result = None

MergeFrame == UNCHANGED <<build_result, raised, appVars, pgVars, rtVars,
                          regVars, creds_result>>

\* a scan appends a row to the hosts table of a live store
Mg_InsertHost ==
    /\ SumOver(stores, MergeSources, "hosts") < MaxMergeRows
    /\ \E p \in MergeSources, row \in MergeHostRows :
          /\ stores[p].live
          /\ stores' = [stores EXCEPT ![p].hosts = Append(@, row)]
    /\ hosts_result' = None
    /\ command_builder' = reset
    /\ MergeFrame

\* an smb scan records a share of, or an admin relation on, one of its hosts
Mg_InsertRelation ==
    /\ stores["smb"].live
    /\ \E table_name \in RelationTables,
          hostid \in DOMAIN stores["smb"].hosts :
          /\ stores["smb"][table_name] = <<>>
          /\ stores' = [stores EXCEPT
                          !["smb"][table_name] =
                              <<[userid |-> 1, hostid |-> hostid]>>]
    /\ hosts_result' = None
    /\ command_builder' = reset
    /\ MergeFrame

\* get_hosts(1, 20, filters)
Mg_GetHosts ==
    /\ \E filters \in HostFilterChoices :
          LET got == get_hosts(stores, 1, 20, filters)
          IN hosts_result' = Some([page |-> 1, size |-> 20,
                                   filters |-> filters,
                                   items |-> got.items, total |-> got.total])
    /\ command_builder' = reset
    /\ UNCHANGED stores
    /\ MergeFrame

\* a selection started on the credentials page picks a credential and then
\* one of the hosts listed: start_selection("users"), set_user, set_host
Mg_ChooseHost ==
    /\ hosts_result # None
    /\ \E k \in DOMAIN hosts_result[1].items, user \in UserInputs :
          command_builder' =
              set_host(set_user(start_selection("users"), user),
                       hosts_result[1].items[k])
    /\ UNCHANGED <<stores, hosts_result>>
    /\ MergeFrame

MergeNext ==
    \/ Mg_InsertHost
    \/ Mg_InsertRelation
    \/ Mg_GetHosts
    \/ Mg_ChooseHost

SpecMerge == MergeSpecInit /\ [][MergeNext]_vars

\* the raw host rows with this IP in the live stores
RowsWithIp(st, ip) ==
    UNION { {st[p].hosts[k] : k \in {k \in DOMAIN st[p].hosts :
                                        st[p].hosts[k].ip = ip}} :
            p \in {p \in ProtocolNames : st[p].live} }

\* C26: the merged host's domain-controller flag and signing flag come from
\* whichever contributing row carries them: the merged record has the dc
\* flag if any raw row of its IP has it, and a signing value if any raw row
\* of its IP has one, whichever source was scanned first.
C26_FlagsFromAnyContributingRow ==
    hosts_result # None
    => \A k \in DOMAIN hosts_result[1].items :
          LET item == hosts_result[1].items[k]
              rows == RowsWithIp(stores, item.ip)
          IN /\ item.dc <=> \E row \in rows : row.dc
             /\ item.signing # NoneStr
                  <=> \E row \in rows : row.signing # NoneStr

\* the IPs of the hosts that a row of the relation table is recorded for
IpsRecordedIn(st, table_name) ==
    IF ~st["smb"].live THEN {}
    ELSE {st["smb"].hosts[h].ip :
            h \in {h \in DOMAIN st["smb"].hosts :
                     \E r \in DOMAIN st["smb"][table_name] :
                        st["smb"][table_name][r].hostid = h}}

\* C28: for every set of live sources, with the has_shares filter set every
\* host the host query returns has at least one share recorded for it, with
\* the has_creds filter set every host returned has at least one admin
\* relation, and the total counts only the hosts that pass the filters.
C28_FiltersKeepOnlyMatchingHosts ==
    hosts_result # None
    => LET r == hosts_result[1] IN
       /\ r.filters.has_shares
          => \A k \in DOMAIN r.items :
                r.items[k].ip \in IpsRecordedIn(stores, "shares")
       /\ r.filters.has_creds
          => \A k \in DOMAIN r.items :
                r.items[k].ip \in IpsRecordedIn(stores, "admin_relations")
       /\ r.total = Len(r.items)

\* C29: every protocol offered as a candidate for a chosen host whose codes
\* decode to at least one protocol is a protocol whose store contributed a
\* row for that host's IP: a host seen only through one protocol is never
\* offered a different protocol.
C29_CandidatesContributedARow ==
    (/\ needs_protocol_selection(command_builder)
     /\ IsTruthy(command_builder.selected_host)
     /\ DecodeLetters(command_builder.selected_host[1].protocols) # <<>>)
    => LET candidates == get_available_protocols(command_builder)
           ip == command_builder.selected_host[1].ip
       IN \A i \in DOMAIN candidates :
             /\ stores[candidates[i]].live
             /\ \E k \in DOMAIN stores[candidates[i]].hosts :
                   stores[candidates[i]].hosts[k].ip = ip

====
